---- MODULE Spec2Model ----
(***************************************************************************)
(* Model of the Mesophy Raspberry Pi signage client                        *)
(* (src/3rd-attempt-pi-client): the device state derivation                *)
(* (lib/state_manager.py), the content cache (lib/content_manager.py), the *)
(* command dispatcher (lib/command_executor.py) and the control loops with *)
(* their state handlers, workers and interruptible sleeps (pi-client.py).  *)
(*                                                                         *)
(* Every public operation of the client objects is an action: it can be    *)
(* invoked whenever its object exists, as the control loops, the command   *)
(* handlers and the scripts of the repository do.  The gateway's answers   *)
(* and the outcome of every network or file-system call are inputs of the  *)
(* action that makes the call.                                             *)
(***************************************************************************)
EXTENDS Integers, Sequences, FiniteSets, TLC

(***************************************************************************)
(* Bounds of the model.                                                    *)
(***************************************************************************)
\* Longest media list the gateway answers with while the cache is examined.
MaxListLen == 2
\* Longest media list the gateway answers with while playback is examined.
MaxPlayLen == 3
\* Last value of the wall clock: a download that would read a later time
\* does not happen.
MaxClock == 3
\* Calls of get_current_content counted between two rebuilds of the playlist.
MaxCalls == 4
\* Invocations of the PLAYING_CONTENT handlers counted.
MaxInvocations == 10
\* Longest sleep of a worker, in naps of 100 ms.
MaxNaps == 2
\* Longest batch the command worker polls while the workers are interleaved.
MaxBatch == 2
\* Urgent commands received while the workers are interleaved.
MaxSignals == 1

(***************************************************************************)
(* Python values.                                                          *)
(***************************************************************************)
\* Python's None.
None == "None"

\* Truth value of a Python object in a condition: None and '' are false.
Truthy(v) == v \notin {None, ""}

(***************************************************************************)
(* The device states (state_manager.py).                                   *)
(***************************************************************************)
NOT_PAIRED == "NOT_PAIRED"
WAITING_FOR_MEDIA == "WAITING_FOR_MEDIA"
PLAYING_CONTENT == "PLAYING_CONTENT"

(***************************************************************************)
(* The gateway's media assets.  Sizes are counted in MiB (1024 * 1024      *)
(* bytes), the unit of max_cache_size_mb; the byte counts of the code are  *)
(* these numbers times 1024 * 1024 on both sides of every comparison.      *)
(***************************************************************************)
MediaIds == {"A", "B", "C"}

\* Size of the body the gateway serves at a URL, in MiB.
BodySize(url) == CASE url = "u1" -> 500 [] OTHER -> 1100

\* Size of the file a download leaves when the connection breaks while the
\* body is being written, in MiB.
PartialSize == 100

\* The filename the gateway gives an asset.
AssetFilename(id) == CASE id = "A" -> "a:1.jpg" [] id = "B" -> "b.jpg" [] OTHER -> "c.mp4"

\* A media item as get_media_list returns it.
Item(id, url, type) ==
    [id |-> id, url |-> url, type |-> type, filename |-> AssetFilename(id), duration |-> 10]

\* The items of the gateway: asset A at its first URL and, replaced by a
\* larger file, at a second one; asset C typed as an image and, corrected, as
\* a video.
Catalogue ==
    { Item("A", "u1", "image"), Item("A", "u2", "image"),
      Item("B", "u1", "image"),
      Item("C", "u1", "image"), Item("C", "u1", "video") }

\* The sequences of at most n items of items in which no asset comes twice.
ListsOver(items, n) ==
    { l \in UNION { [1..k -> items] : k \in 0..n } :
        \A i, j \in DOMAIN l : l[i].id = l[j].id => i = j }

\* hashlib.md5(url.encode()).hexdigest(): the digest of each URL.
md5(url) == CASE url = "u1" -> "d41d" [] url = "u2" -> "9e10" [] url = "u3" -> "7c2f" [] OTHER -> "0000"

\* ContentManager.max_cache_size_mb
max_cache_size_mb == 1000

\* max_size_bytes of _cleanup_cache, in MiB.
max_size_bytes == max_cache_size_mb


(***************************************************************************)
(* State.                                                                  *)
(***************************************************************************)
VARIABLES
    config,            \* MesophyPiClient.config: device_id, screen_id, pairing_code
    cache_info,        \* ContentManager.cache_info: a dict, media id -> entry
    disk,              \* the files of the cache directory: a dict, local path -> size
    current_playlist,  \* ContentManager.current_playlist
    current_index,     \* ContentManager.current_index
    clock,             \* the wall clock read by datetime.utcnow()
    loop_state,        \* what the last iteration of the main loop computed and dispatched
    last_op,           \* the last operation, what it did and what it returned
    calls,             \* calls of get_current_content since the playlist was last built
    base,              \* the playback position in effect when the playlist was last built
    _content_sync_counter, \* MesophyPiClient._content_sync_counter (0 until first set)
    invocations,       \* the invocations of the PLAYING_CONTENT handlers so far
    persisted,         \* the configuration file (config_path)
    backup,            \* the last backup of the configuration file, None if none
    pending,           \* the gateway's queue: the ids of the commands it still serves
    done,              \* the ids of the commands whose execution has ended on the device
    cycle,             \* the last poll cycle: what it executed and reported
    running,           \* MesophyPiClient.running
    interrupt_display, \* MesophyPiClient.interrupt_display.is_set()
    shutdown_event,    \* MesophyPiClient.shutdown_event.is_set()
    pc,                \* where each worker of the threaded client is
    left,              \* the 100 ms naps each worker's sleep has left
    batch_left,        \* the commands of the polled batch the command worker has still to run
    wake,              \* what each worker's sleep saw when it left its loop
    last_sleep,        \* how the last sleep that returned did so, and whose it was
    signals,           \* the urgent commands that have set interrupt_display
    early,             \* the sleeps that returned before their duration, shutdown
                       \* apart, counted up to one more than signals
    index_file,        \* whether cache_info.json is in the cache directory when a
                       \* command handler lists it
    handled,           \* the last command handler that ran, what it did and returned
    content_cache_info, \* cache_info of the client's own ContentManager (self.content),
                       \* where a specification tells it apart from cache_info.json
    gateway_screen,    \* the screen an operator has assigned to the device at the
                       \* gateway since the client started, None if none
    sent,              \* the heartbeat requests and command polls the device has
                       \* sent to the gateway, in order
    is_playing,        \* NativeMediaPlayer.is_playing
    playback_thread,   \* NativeMediaPlayer.playback_thread: the thread created last,
                       \* 0 for None
    threads,           \* where each thread of playback_worker is
    callers            \* where each thread that calls the player is

\* The variables of the display side of the client.
client_vars == <<config, cache_info, disk, current_playlist, current_index, clock,
                 loop_state, last_op, calls, base, _content_sync_counter, invocations,
                 persisted, backup>>

\* The variables of the command side.
command_vars == <<pending, done, cycle>>

\* The variables of the workers of the threaded client.
interrupt_vars == <<running, interrupt_display, shutdown_event, pc, left, batch_left,
                    wake, last_sleep, signals, early>>

\* The variables of the command handlers that work on the cache directory,
\* and the gateway's record of the device.
handler_vars == <<index_file, handled, content_cache_info, gateway_screen, sent,
                  is_playing, playback_thread, threads, callers>>

\* The variables of NativeMediaPlayer.
player_vars == <<is_playing, playback_thread, threads, callers>>

vars == <<client_vars, command_vars, interrupt_vars, handler_vars>>

(***************************************************************************)
(* Python dicts: functions whose domain is the set of keys.                *)
(***************************************************************************)
EmptyDict == [k \in {} |-> None]
Put(d, k, v) == [x \in DOMAIN d \cup {k} |-> IF x = k THEN v ELSE d[x]]
Del(d, k) == [x \in DOMAIN d \ {k} |-> d[x]]

(***************************************************************************)
(* ContentManager (lib/content_manager.py).                                *)
(***************************************************************************)
\* _sanitize_filename: each of <>:"/\|?* becomes _ ; the names of the
\* catalogue are shorter than 100 characters, so none is truncated.
_sanitize_filename(filename) ==
    CASE filename = "a:1.jpg" -> "a_1.jpg" [] OTHER -> filename

\* local_filename of _download_media_item, the media id and the sanitized
\* name; it stands for local_path as well, the cache directory being the
\* same for every path.
LocalPath(media_item) == <<media_item.id, _sanitize_filename(media_item.filename)>>

\* os.path.exists
Exists(d, path) == path \in DOMAIN d

\* _is_cached_and_current with the fingerprint comparison left out.
_is_cached_and_current_any_url(media_item, local_path, ci, d) ==
    LET media_id == media_item.id
    IN  IF ~Exists(d, local_path) THEN FALSE
        ELSE IF media_id \notin DOMAIN ci THEN FALSE
        ELSE IF ~Exists(d, ci[media_id].local_path) THEN FALSE
        ELSE TRUE

\* _is_cached_and_current comparing the stored fingerprint with the URL
\* instead of its digest.
_is_cached_and_current_raw_url(media_item, local_path, ci, d) ==
    LET media_id == media_item.id
    IN  IF ~Exists(d, local_path) THEN FALSE
        ELSE IF media_id \notin DOMAIN ci THEN FALSE
        ELSE IF ci[media_id].url_hash # media_item.url THEN FALSE
        ELSE IF ~Exists(d, ci[media_id].local_path) THEN FALSE
        ELSE TRUE

\* _is_cached_and_current
_is_cached_and_current(media_item, local_path, ci, d) ==
    LET media_id == media_item.id
    IN  IF ~Exists(d, local_path) THEN FALSE
        ELSE IF media_id \notin DOMAIN ci THEN FALSE
        ELSE IF ci[media_id].url_hash # md5(media_item.url) THEN FALSE
        ELSE IF ~Exists(d, ci[media_id].local_path) THEN FALSE
        ELSE TRUE

\* _download_media_item on the cache st, where outcome is what
\* api.download_media does: "ok" writes the body and returns True, "fail"
\* returns False before anything is written, "partial" returns False and
\* leaves a truncated file.  st carries the cache and what the sync has
\* done so far.
_download_media_item(media_item, st, outcome) ==
    LET media_id == media_item.id
        local_path == LocalPath(media_item)
    IN  IF _is_cached_and_current(media_item, local_path, st.cache_info, st.disk)
        THEN st
        ELSE IF outcome = "ok"
        THEN [st EXCEPT
                !.disk = Put(@, local_path, BodySize(media_item.url)),
                !.cache_info = Put(@, media_id,
                    [local_path |-> local_path,
                     filename |-> local_path,
                     type |-> media_item.type,
                     size |-> BodySize(media_item.url),
                     downloaded_at |-> st.clock + 1,
                     url_hash |-> md5(media_item.url)]),
                !.clock = @ + 1,
                !.attempted = @ \cup {media_id},
                !.stored = @ \cup {<<media_id, md5(media_item.url)>>},
                !.index_written = TRUE]
        ELSE IF outcome = "partial"
        THEN [st EXCEPT
                !.disk = Put(@, local_path, PartialSize),
                !.attempted = @ \cup {media_id},
                !.failed = @ \cup {media_id}]
        ELSE [st EXCEPT
                !.attempted = @ \cup {media_id},
                !.failed = @ \cup {media_id}]

\* The download loop of sync_content giving up at the first item whose
\* download fails.
RECURSIVE DownloadFromUntilFailure(_, _, _, _)
DownloadFromUntilFailure(media_list, i, st, outcomes) ==
    IF i > Len(media_list) THEN st
    ELSE LET next == _download_media_item(media_list[i], st, outcomes[i])
         IN  IF next.failed # st.failed THEN next
             ELSE DownloadFromUntilFailure(media_list, i + 1, next, outcomes)

\* The download loop of sync_content: items i..Len(media_list) in order.
RECURSIVE DownloadFrom(_, _, _, _)
DownloadFrom(media_list, i, st, outcomes) ==
    IF i > Len(media_list) THEN st
    ELSE DownloadFrom(media_list, i + 1,
                      _download_media_item(media_list[i], st, outcomes[i]), outcomes)

\* The loop of _build_playlist inserting each item at the front of the
\* playlist instead of appending it.
RECURSIVE BuildFromFront(_, _, _)
BuildFromFront(media_list, i, st) ==
    IF i > Len(media_list) THEN st
    ELSE LET media_item == media_list[i]
             media_id == media_item.id
         IN  IF media_id \in DOMAIN st.cache_info
                /\ Exists(st.disk, st.cache_info[media_id].local_path)
             THEN LET cache_item == st.cache_info[media_id]
                  IN  BuildFromFront(media_list, i + 1,
                        [st EXCEPT !.playlist = <<
                            [id |-> media_id,
                             path |-> cache_item.local_path,
                             type |-> media_item.type,
                             filename |-> cache_item.filename,
                             duration |-> media_item.duration]>> \o @])
             ELSE BuildFromFront(media_list, i + 1, st)

\* The loop of _build_playlist over items i..Len(media_list); st.playlist is
\* the playlist built so far.
RECURSIVE BuildFrom(_, _, _)
BuildFrom(media_list, i, st) ==
    IF i > Len(media_list) THEN st
    ELSE LET media_item == media_list[i]
             media_id == media_item.id
         IN  IF media_id \in DOMAIN st.cache_info
                /\ Exists(st.disk, st.cache_info[media_id].local_path)
             THEN LET cache_item == st.cache_info[media_id]
                      current_type == media_item.type
                      typed == IF current_type # cache_item.type
                               THEN [st EXCEPT
                                       !.cache_info = Put(@, media_id,
                                           [cache_item EXCEPT !.type = current_type]),
                                       !.index_written = TRUE]
                               ELSE st
                  IN  BuildFrom(media_list, i + 1,
                        [typed EXCEPT !.playlist = Append(@,
                            [id |-> media_id,
                             path |-> cache_item.local_path,
                             type |-> current_type,
                             filename |-> cache_item.filename,
                             duration |-> media_item.duration])])
             ELSE BuildFrom(media_list, i + 1, st)

\* _build_playlist
_build_playlist(media_list, st) == BuildFrom(media_list, 1, [st EXCEPT !.playlist = <<>>])

\* The first loop of _cleanup_cache: the ids of the entries whose file exists.
CacheItems(ci, d) == { id \in DOMAIN ci : Exists(d, ci[id].local_path) }

\* Sum of os.path.getsize over the files of the entries ids.
RECURSIVE SizeOf(_, _, _)
SizeOf(ids, ci, d) ==
    IF ids = {} THEN 0
    ELSE LET id == CHOOSE x \in ids : TRUE
         IN  d[ci[id].local_path] + SizeOf(ids \ {id}, ci, d)

\* The sort of _cleanup_cache reversed: the ids, newest download first.
RECURSIVE SortByDownloadedAtDesc(_, _)
SortByDownloadedAtDesc(ids, ci) ==
    IF ids = {} THEN <<>>
    ELSE LET first == CHOOSE x \in ids :
                        \A y \in ids : ci[x].downloaded_at >= ci[y].downloaded_at
         IN  <<first>> \o SortByDownloadedAtDesc(ids \ {first}, ci)

\* cache_items.sort(key=downloaded_at): the ids, oldest download first.
RECURSIVE SortByDownloadedAt(_, _)
SortByDownloadedAt(ids, ci) ==
    IF ids = {} THEN <<>>
    ELSE LET first == CHOOSE x \in ids :
                        \A y \in ids : ci[x].downloaded_at <= ci[y].downloaded_at
         IN  <<first>> \o SortByDownloadedAt(ids \ {first}, ci)

\* The removal loop of _cleanup_cache leaving after its first removal.
RemoveFromOnce(sorted, i, total_size, st, rm_fail) ==
    IF i > Len(sorted) THEN st
    ELSE LET media_id == sorted[i]
             cache_item == st.cache_info[media_id]
             size == st.disk[cache_item.local_path]
         IN  IF media_id \in rm_fail
             THEN [st EXCEPT !.rm_failed = @ \cup {media_id}]
             ELSE [st EXCEPT
                       !.disk = Del(@, cache_item.local_path),
                       !.cache_info = Del(@, media_id),
                       !.evicted = @ \cup {[id |-> media_id,
                                            downloaded_at |-> cache_item.downloaded_at,
                                            size |-> size]}]

\* The removal loop of _cleanup_cache over sorted[i..]; rm_fail is the set
\* of ids whose os.remove raises.
RECURSIVE RemoveFrom(_, _, _, _, _)
RemoveFrom(sorted, i, total_size, st, rm_fail) ==
    IF i > Len(sorted) THEN st
    ELSE IF total_size <= max_size_bytes THEN st
    ELSE LET media_id == sorted[i]
             cache_item == st.cache_info[media_id]
             size == st.disk[cache_item.local_path]
         IN  IF media_id \in rm_fail
             THEN RemoveFrom(sorted, i + 1, total_size,
                    [st EXCEPT !.rm_failed = @ \cup {media_id}], rm_fail)
             ELSE RemoveFrom(sorted, i + 1, total_size - size,
                    [st EXCEPT
                       !.disk = Del(@, cache_item.local_path),
                       !.cache_info = Del(@, media_id),
                       !.evicted = @ \cup {[id |-> media_id,
                                            downloaded_at |-> cache_item.downloaded_at,
                                            size |-> size]}],
                    rm_fail)

\* _cleanup_cache
_cleanup_cache(st, rm_fail) ==
    LET cache_items == CacheItems(st.cache_info, st.disk)
        total_size == SizeOf(cache_items, st.cache_info, st.disk)
    IN  IF total_size > max_size_bytes
        THEN [RemoveFrom(SortByDownloadedAt(cache_items, st.cache_info), 1,
                         total_size, st, rm_fail)
                EXCEPT !.over_budget = TRUE, !.index_written = TRUE]
        ELSE st


\* What a sync has done so far: the cache it works on and its record.
SyncStart(ci, d, now, playlist) ==
    [cache_info |-> ci, disk |-> d, clock |-> now, playlist |-> playlist,
     ran |-> FALSE, ret |-> FALSE,
     attempted |-> {}, stored |-> {}, failed |-> {},
     evicted |-> {}, rm_failed |-> {}, over_budget |-> FALSE,
     index_written |-> FALSE]

\* APIClient.get_media_list (lib/api_client.py): the transformed
\* media_assets of a 200/201 answer, [] for any other status or an exception.
get_media_list(answer) ==
    IF answer.status = "ok" THEN answer.media_assets ELSE <<>>

\* sync_content rebuilding the playlist from an empty media list as well.
sync_content_rebuilding_empty(screen_id, answer, outcomes, rm_fail, st) ==
    IF ~Truthy(screen_id) THEN st
    ELSE LET media_list == get_media_list(answer)
             downloaded == DownloadFrom(media_list, 1, st, outcomes)
             built == _build_playlist(media_list, downloaded)
             cleaned == _cleanup_cache(built, rm_fail)
         IN  [cleaned EXCEPT !.ran = media_list # <<>>,
                             !.ret = Len(cleaned.playlist) > 0]

\* sync_content cleaning the cache up before it builds the playlist.
sync_content_cleaning_before_build(screen_id, answer, outcomes, rm_fail, st) ==
    IF ~Truthy(screen_id) THEN st
    ELSE LET media_list == get_media_list(answer)
         IN  IF media_list = <<>> THEN st
             ELSE LET downloaded == DownloadFrom(media_list, 1, st, outcomes)
                      cleaned == _cleanup_cache(downloaded, rm_fail)
                      built == _build_playlist(media_list, cleaned)
                  IN  [built EXCEPT !.ran = TRUE, !.ret = Len(built.playlist) > 0]

\* sync_content: answer is the gateway's answer to the media-list request,
\* outcomes[i] what the download of item i does if it is attempted, rm_fail
\* the ids whose file cannot be removed.
sync_content(screen_id, answer, outcomes, rm_fail, st) ==
    IF ~Truthy(screen_id) THEN st
    ELSE LET media_list == get_media_list(answer)
         IN  IF media_list = <<>> THEN st
             ELSE LET downloaded == DownloadFrom(media_list, 1, st, outcomes)
                      built == _build_playlist(media_list, downloaded)
                      cleaned == _cleanup_cache(built, rm_fail)
                  IN  [cleaned EXCEPT !.ran = TRUE, !.ret = Len(cleaned.playlist) > 0]

\* The result of get_current_content on an empty playlist (Python's None).
NoContent == [id |-> None]

\* get_current_content without the wrap to the first item: past the end it
\* keeps returning the last item.
get_current_content_no_wrap(playlist, index) ==
    IF playlist = <<>> THEN [item |-> NoContent, index |-> index]
    ELSE LET i == IF index >= Len(playlist) THEN Len(playlist) - 1 ELSE index
         IN  [item |-> playlist[i + 1], index |-> i + 1]

\* get_current_content: the item returned and the cursor afterwards.
get_current_content(playlist, index) ==
    IF playlist = <<>> THEN [item |-> NoContent, index |-> index]
    ELSE LET i == IF index >= Len(playlist) THEN 0 ELSE index
         IN  [item |-> playlist[i + 1], index |-> i + 1]

(***************************************************************************)
(* StateManager (lib/state_manager.py).                                    *)
(***************************************************************************)
\* get_current_state reporting a device without a screen as not paired.
get_current_state_needs_screen(cfg) ==
    IF ~Truthy(cfg.device_id) \/ ~Truthy(cfg.screen_id) THEN NOT_PAIRED
    ELSE WAITING_FOR_MEDIA

\* get_current_state(self)
get_current_state(cfg) ==
    IF ~Truthy(cfg.device_id) THEN NOT_PAIRED
    ELSE IF ~Truthy(cfg.screen_id) THEN WAITING_FOR_MEDIA
    ELSE WAITING_FOR_MEDIA

\* A call of get_current_state with nargs arguments besides self: the
\* method takes none, so Python raises TypeError for any other number.
call_get_current_state(cfg, nargs) ==
    IF nargs = 0 THEN get_current_state(cfg) ELSE "TypeError"

(***************************************************************************)
(* Inputs: the gateway's answers and the faults of a sync.                 *)
(***************************************************************************)
\* The gateway's answers to the media-list request over the lists ls.
Answers(ls) ==
    {[status |-> "error", media_assets |-> <<>>]}
        \cup {[status |-> "ok", media_assets |-> l] : l \in ls}

\* A sync in which every call succeeds.
NoFault == [bad |-> {}, mode |-> "fail", rm_fail |-> {}]

\* The faults of a sync: the downloads of the ids in bad fail in the given
\* mode, os.remove fails for the ids in rm_fail.
SyncFaults ==
    { NoFault,
      [bad |-> {"A"}, mode |-> "fail", rm_fail |-> {}],
      [bad |-> {"B"}, mode |-> "partial", rm_fail |-> {}],
      [bad |-> {}, mode |-> "fail", rm_fail |-> {"A"}],
      [bad |-> {}, mode |-> "fail", rm_fail |-> MediaIds] }

\* outcomes[i] of the downloads of media_list under a fault.
Outcomes(media_list, fault) ==
    [i \in DOMAIN media_list |->
        IF media_list[i].id \in fault.bad THEN fault.mode ELSE "ok"]

\* Media lists served while the cache is examined.
MediaLists == ListsOver(Catalogue, MaxListLen)

\* Media lists served while playback is examined: the assets at their first
\* URL.
PlayLists ==
    ListsOver({Item("A", "u1", "image"), Item("B", "u1", "image"),
               Item("C", "u1", "video")}, MaxPlayLen)

\* Media lists served while the life cycle is examined.
LifeLists ==
    { <<>>, <<Item("A", "u1", "image")>>,
      <<Item("A", "u1", "image"), Item("B", "u1", "image")>> }

\* APIClient.device_id (_get_device_id): "pi-" and the CPU serial.
ApiDeviceId == "pi-10000000abcdef"

\* No file at a path.
NoFile == [device_id |-> None, screen_id |-> None, pairing_code |-> None,
           exists |-> FALSE]

\* The pairing code the gateway registers.
PairingCode == "K7Q2MX"

\* What get_device_info returns: None or the device's record.
DeviceInfos ==
    { [found |-> FALSE, device_id |-> None, screen_id |-> None],
      [found |-> TRUE, device_id |-> None, screen_id |-> None],
      [found |-> TRUE, device_id |-> ApiDeviceId, screen_id |-> "screen-1"],
      [found |-> TRUE, device_id |-> ApiDeviceId, screen_id |-> ""] }

\* The configurations a client starts from (load_config): a fresh device, a
\* paired device with and without a screen, and files edited by hand.
InitialConfigs ==
    { [device_id |-> None, screen_id |-> None, pairing_code |-> None],
      [device_id |-> ApiDeviceId, screen_id |-> "screen-1", pairing_code |-> None],
      [device_id |-> "", screen_id |-> "screen-1", pairing_code |-> PairingCode],
      [device_id |-> ApiDeviceId, screen_id |-> "", pairing_code |-> None] }

\* The record of an operation that did nothing but be called.
NoOp(op) ==
    [op |-> op, list |-> <<>>, ran |-> FALSE, ret |-> FALSE,
     attempted |-> {}, stored |-> {}, failed |-> {},
     evicted |-> {}, rm_failed |-> {}, over_budget |-> FALSE,
     index_written |-> FALSE, item |-> NoContent,
     cursor_before |-> 0, prev_len |-> 0, state |-> None,
     stale |-> {}, fresh |-> {}, again |-> FALSE, prev_clean |-> FALSE,
     resized |-> FALSE, after_resize |-> FALSE, status |-> None, forced |-> FALSE,
     shown |-> None, code |-> None,
     updates |-> EmptyDict, outcome |-> None, raised |-> FALSE, restart_required |-> FALSE,
     config_before |-> NoFile, file_before |-> NoFile, offline_sent |-> FALSE,
     backup_before |-> NoFile]

\* The operation before this one was a sync that went through.
LastRan == last_op.ran

\* The ids of media_list whose index entry carries the fingerprint of
\* another URL than the list's.
StaleIds(media_list, ci) ==
    { media_list[i].id : i \in { j \in DOMAIN media_list :
        /\ media_list[j].id \in DOMAIN ci
        /\ ci[media_list[j].id].url_hash # md5(media_list[j].url) } }

\* The ids of media_list whose index entry carries the fingerprint of the
\* list's URL and whose file is on disk.
FreshIds(media_list, ci, d) ==
    { media_list[i].id : i \in { j \in DOMAIN media_list :
        /\ media_list[j].id \in DOMAIN ci
        /\ ci[media_list[j].id].url_hash = md5(media_list[j].url)
        /\ ci[media_list[j].id].local_path \in DOMAIN d } }

\* The position in the playlist of the item the next get_current_content
\* returns.
NextPosition(playlist, index) ==
    IF index >= Len(playlist) THEN 0 ELSE index

(***************************************************************************)
(* Remote commands: the dispatcher and the gateway calls it makes.         *)
(***************************************************************************)
\* The command types execute_command routes to a handler.
KnownTypes ==
    {"restart", "restart_content", "reboot", "shutdown", "sync_content", "clear_cache",
     "health_check", "update_config", "get_logs", "test_display", "emergency_message"}

Command(id, priority, command_type) ==
    [id |-> id, priority |-> priority, command_type |-> command_type]

\* The commands the gateway queues: one urgent, two at the default priority.
Commands ==
    { Command("c1", 5, "sync_content"), Command("c2", 1, "restart_content"),
      Command("c3", 5, "health_check") }

CommandIds == {c.id : c \in Commands}

\* command.get('priority', 5)
Priority(command) == IF "priority" \in DOMAIN command THEN command.priority ELSE 5

\* What one execution meets: the outcome of each status report it may send
\* ("ok": the gateway records it; "lost": the call fails quietly; "raises":
\* the call raises) and of the handler ("returns" or "raises").
NoFaultPlan ==
    [executing |-> "ok", handler |-> "returns", completed |-> "ok", failed |-> "ok"]

Plans ==
    { NoFaultPlan,
      [NoFaultPlan EXCEPT !.handler = "raises"],
      [NoFaultPlan EXCEPT !.executing = "lost"],
      [NoFaultPlan EXCEPT !.executing = "raises"],
      [NoFaultPlan EXCEPT !.completed = "lost"],
      [NoFaultPlan EXCEPT !.completed = "raises"],
      [NoFaultPlan EXCEPT !.handler = "raises", !.failed = "lost"],
      [NoFaultPlan EXCEPT !.handler = "raises", !.failed = "raises"] }

\* The plans of a batch: at most one of its commands meets a fault.
BatchPlans(commands) ==
    { plans \in [DOMAIN commands -> Plans] :
        \A i, j \in DOMAIN commands :
            (plans[i] # NoFaultPlan /\ plans[j] # NoFaultPlan) => i = j }

\* The record of a poll cycle before it executes anything.
NoCycle(variant) ==
    [variant |-> variant, polled |-> <<>>, commands |-> <<>>, plans |-> <<>>,
     poll |-> "none",
     reports |-> <<>>, handled |-> <<>>, results |-> <<>>,
     interrupts |-> {}, aborted |-> FALSE, done_before |-> {}]

\* self.api.update_command_status(command_id, status, ...): the report is
\* sent and meets its outcome.
update_command_status(command_id, status, outcome, log) ==
    [log EXCEPT !.reports = Append(@, [id |-> command_id, status |-> status,
                                        outcome |-> outcome])]

\* execute_command returns ret ("True", "False") or lets an exception out
\* ("raised").
Returned(log, command_id, ret) ==
    [log EXCEPT !.results = Append(@, [id |-> command_id, ret |-> ret])]

\* The except branch of execute_command.
ExceptBranch(command_id, plan, log) ==
    LET reported == update_command_status(command_id, "failed", plan.failed, log)
    IN  IF plan.failed = "raises"
        THEN Returned(reported, command_id, "raised")
        ELSE Returned(reported, command_id, "False")

\* CommandExecutor.execute_command
execute_command(command, plan, log) ==
    LET command_id == command.id
        executing == update_command_status(command_id, "executing", plan.executing, log)
    IN  IF plan.executing = "raises"
        THEN Returned(executing, command_id, "raised")
        ELSE LET known == command.command_type \in KnownTypes
                 routed == IF known
                           THEN [executing EXCEPT !.handled = Append(@, command_id)]
                           ELSE executing
             IN  IF known /\ plan.handler = "returns"
                 THEN LET completed == update_command_status(command_id, "completed",
                                                             plan.completed, routed)
                      IN  IF plan.completed = "raises"
                          THEN ExceptBranch(command_id, plan, completed)
                          ELSE Returned(completed, command_id, "True")
                 ELSE ExceptBranch(command_id, plan, routed)

\* The place of command in the sorted list: after the commands of lower or
\* equal priority.
RECURSIVE InsertByPriority(_, _)
InsertByPriority(sorted, command) ==
    IF sorted = <<>> THEN <<command>>
    ELSE IF Priority(sorted[Len(sorted)]) <= Priority(command)
         THEN Append(sorted, command)
         ELSE Append(InsertByPriority(SubSeq(sorted, 1, Len(sorted) - 1), command),
                     sorted[Len(sorted)])

RECURSIVE SortFrom(_, _, _)
SortFrom(commands, i, sorted) ==
    IF i > Len(commands) THEN sorted
    ELSE SortFrom(commands, i + 1, InsertByPriority(sorted, commands[i]))

\* A sort that puts the highest number first.
SortByPriorityDesc(commands) ==
    LET asc == SortFrom(commands, 1, <<>>)
    IN  [i \in DOMAIN asc |-> asc[Len(asc) + 1 - i]]

\* commands.sort(key=lambda x: x.get('priority', 5)): a stable sort.
SortByPriority(commands) == SortFrom(commands, 1, <<>>)

\* The for loop of _command_loop from its i-th command on: an exception
\* that execute_command lets out ends the loop.
RECURSIVE RunBatchThreaded(_, _, _, _)
RunBatchThreaded(commands, plans, i, log) ==
    IF i > Len(commands) THEN log
    ELSE LET priority == Priority(commands[i])
             signalled == IF priority <= 2
                          THEN [log EXCEPT !.interrupts = @ \cup {commands[i].id}]
                          ELSE log
             executed == execute_command(commands[i], plans[i], signalled)
         IN  IF executed.results[Len(executed.results)].ret = "raised"
             THEN [executed EXCEPT !.aborted = TRUE]
             ELSE RunBatchThreaded(commands, plans, i + 1, executed)

\* The for loop of _poll_and_execute_commands from its i-th command on: each
\* command in its own try block.
RECURSIVE RunBatchLegacy(_, _, _, _)
RunBatchLegacy(commands, plans, i, log) ==
    IF i > Len(commands) THEN log
    ELSE RunBatchLegacy(commands, plans, i + 1,
                        execute_command(commands[i], plans[i], log))

\* self.api.poll_commands(limit): the batches the call may return, at most
\* limit of the pending commands in the order the gateway received them.
poll_commands(queue, limit) ==
    { batch \in ListsOver({c \in Commands : c.id \in queue}, Cardinality(CommandIds)) :
        Len(batch) <= limit }

\* The ids of the commands of a cycle whose execution ended: a terminal
\* report was made for them.
Ended(log) ==
    { log.reports[i].id : i \in { j \in DOMAIN log.reports :
                                    log.reports[j].status \in {"completed", "failed"} } }

\* The ids of the commands the gateway has seen end: it stops serving them.
Acknowledged(log) ==
    { log.reports[i].id : i \in { j \in DOMAIN log.reports :
                                    /\ log.reports[j].status \in {"completed", "failed"}
                                    /\ log.reports[j].outcome = "ok" } }

(***************************************************************************)
(* The workers of the threaded client and their interruptible sleeps.      *)
(***************************************************************************)
\* The display loop (the main thread), the command thread and the heartbeat
\* thread.
Workers == {"display", "command", "heartbeat"}

\* What a sleep saw when it left its while loop: whether its duration had
\* run out (full), whether interrupt_display was set (saw), whether
\* shutdown_event was set (shut), and whether an urgent command arrived
\* while it still had time left (owed).
NoWake == [full |-> FALSE, saw |-> FALSE, shut |-> FALSE, owed |-> FALSE]

\* How a sleep returned: ret is "none" before the first sleep returns, then
\* the value _interruptible_sleep returned to worker.
NoSleep ==
    [worker |-> "none", ret |-> "none", full |-> FALSE, saw |-> FALSE, shut |-> FALSE,
     owed |-> FALSE]

\* No metrics of the system.
NoMetrics ==
    [probed |-> FALSE, cpu_percent |-> 0, memory_percent |-> 0, disk_usage |-> 0,
     sensor |-> FALSE, temperature |-> 0]

\* The record of a command handler that did nothing but be called.
NoHandler(op) ==
    [op |-> op, raised |-> FALSE, method |-> None, status |-> None,
     run |-> None, fallback |-> FALSE,
     listed |-> {}, deleted |-> {}, undeletable |-> {}, index_before |-> FALSE,
     files_removed |-> 0, size_freed_mb |-> 0, attempted |-> {}, stored |-> {}, evicted |-> {},
     files_before |-> 0, files_after |-> 0, deleted_mb |-> 0,
     total_files |-> 0, total_size_mb |-> 0, before |-> <<EmptyDict, <<>>, 0>>,
     metrics |-> NoMetrics, internet |-> TRUE, api_server |-> TRUE,
     issues |-> <<>>, overall_status |-> None,
     ran |-> FALSE, playlist |-> <<>>]

\* The threads start_playlist_playback may create in a run.
MaxThreads == 3

ThreadIds == 1..MaxThreads

\* The threads that call the player: the main thread (start_content_playback)
\* and the thread of sync_and_play_content.
Callers == {"main", "sync"}

(***************************************************************************)
(* The initial states: the objects as their constructors leave them, with  *)
(* an empty cache directory.                                               *)
(***************************************************************************)
InitWith(configs) ==
    /\ config \in configs
    /\ cache_info = EmptyDict
    /\ disk = EmptyDict
    /\ current_playlist = <<>>
    /\ current_index = 0
    /\ clock = 0
    /\ loop_state = None
    /\ last_op = NoOp("init")
    /\ calls = 0
    /\ base = 0
    /\ _content_sync_counter = 0
    /\ invocations = 0
    /\ persisted = config
    /\ backup = NoFile
    /\ pending = CommandIds
    /\ done = {}
    /\ cycle = NoCycle("init")
    /\ running = TRUE
    /\ interrupt_display = FALSE
    /\ shutdown_event = FALSE
    /\ pc = [w \in Workers |-> "run"]
    /\ left = [w \in Workers |-> 0]
    /\ batch_left = <<>>
    /\ wake = [w \in Workers |-> NoWake]
    /\ last_sleep = NoSleep
    /\ signals = 0
    /\ early = 0
    /\ index_file = FALSE
    /\ handled = NoHandler("init")
    /\ content_cache_info = EmptyDict
    /\ gateway_screen = None
    /\ sent = <<>>
    /\ is_playing = FALSE
    /\ playback_thread = 0
    /\ threads = [t \in ThreadIds |-> "unborn"]
    /\ callers = [c \in Callers |-> "idle"]

Init == InitWith(InitialConfigs)

\* A device that is paired and has a screen.
PairedConfig ==
    [device_id |-> ApiDeviceId, screen_id |-> "screen-1", pairing_code |-> None]

InitPaired == InitWith({PairedConfig})

\* A device that has never been paired.
FreshConfig == [device_id |-> None, screen_id |-> None, pairing_code |-> None]

(***************************************************************************)
(* Operations.                                                             *)
(***************************************************************************)
\* The result of self.content.sync_content() in the current state.
SyncResult(answer, fault) ==
    sync_content(config.screen_id, answer,
                 Outcomes(get_media_list(answer), fault), fault.rm_fail,
                 SyncStart(cache_info, disk, clock, current_playlist))

\* The record of a sync with result r.
SyncRecord(op, answer, r) ==
    [NoOp(op) EXCEPT
        !.list = get_media_list(answer),
        !.status = answer.status,
        !.ran = r.ran, !.ret = r.ret,
        !.attempted = r.attempted, !.stored = r.stored, !.failed = r.failed,
        !.evicted = r.evicted, !.rm_failed = r.rm_failed,
        !.over_budget = r.over_budget, !.index_written = r.index_written,
        !.cursor_before = current_index,
        !.prev_len = Len(current_playlist),
        !.stale = IF r.ran THEN StaleIds(get_media_list(answer), cache_info) ELSE {},
        !.fresh = IF r.ran THEN FreshIds(get_media_list(answer), cache_info, disk) ELSE {},
        !.again = r.ran /\ LastRan /\ last_op.list = get_media_list(answer),
        !.prev_clean = LastRan /\ last_op.failed = {} /\ ~last_op.over_budget,
        !.resized = r.ran /\ Len(r.playlist) # Len(current_playlist)]

\* self.content.sync_content(), called by the operation op.
CallSyncContent(op, answer, fault) ==
    \E r \in {SyncResult(answer, fault)} :
        /\ r.clock <= MaxClock
        /\ cache_info' = r.cache_info
        /\ disk' = r.disk
        /\ clock' = r.clock
        /\ current_playlist' = r.playlist
        /\ UNCHANGED current_index
        /\ last_op' = SyncRecord(op, answer, r)
        /\ calls' = IF r.ran THEN 0 ELSE calls
        /\ base' = IF r.ran THEN NextPosition(r.playlist, current_index) ELSE base

\* ContentManager.sync_content, as the command handlers and the handlers of
\* the control loop call it.
SyncContent ==
    /\ \E answer \in Answers(MediaLists), fault \in SyncFaults :
            CallSyncContent("sync", answer, fault)
    /\ UNCHANGED <<config, loop_state, _content_sync_counter, invocations>>
    /\ UNCHANGED <<persisted, backup>>
    /\ UNCHANGED <<command_vars, interrupt_vars, handler_vars>>

\* ContentManager.sync_content while playback is examined.
SyncPlaylist ==
    /\ \E answer \in Answers(PlayLists) : CallSyncContent("sync", answer, NoFault)
    /\ UNCHANGED <<config, loop_state, _content_sync_counter, invocations>>
    /\ UNCHANGED <<persisted, backup>>
    /\ UNCHANGED <<command_vars, interrupt_vars, handler_vars>>

\* ContentManager.get_current_content
GetCurrentContent ==
    /\ calls < MaxCalls
    /\ \E r \in {get_current_content(current_playlist, current_index)} :
        /\ current_index' = r.index
        /\ last_op' = [NoOp("current") EXCEPT
                          !.item = r.item, !.cursor_before = current_index,
                          !.prev_len = Len(current_playlist),
                          !.after_resize = last_op.resized]
    /\ calls' = calls + 1
    /\ UNCHANGED <<config, cache_info, disk, current_playlist, clock, loop_state,
                   base, _content_sync_counter, invocations>>
    /\ UNCHANGED <<persisted, backup>>
    /\ UNCHANGED <<command_vars, interrupt_vars, handler_vars>>

\* StateManager.get_current_state()
GetCurrentState ==
    /\ last_op' = [NoOp("state") EXCEPT !.state = get_current_state(config)]
    /\ UNCHANGED <<config, cache_info, disk, current_playlist, current_index, clock,
                   loop_state, calls, base, _content_sync_counter, invocations>>
    /\ UNCHANGED <<persisted, backup>>
    /\ UNCHANGED <<command_vars, interrupt_vars, handler_vars>>

\* save_config after the pairing code is stored ("code") and after the
\* pairing is stored ("pairing"): whether the file is written.  A failure is
\* logged and nothing else happens.
SaveOutcomes == [{"code", "pairing"} -> BOOLEAN]

\* Both saves write the file.
Saved == [k \in {"code", "pairing"} |-> TRUE]

\* handle_not_paired: generated is what generate_pairing_code returns,
\* device_info what get_device_info returns at the first poll at which
\* check_pairing_status is true (found is FALSE if no poll gets that far).
handle_not_paired(op, generated, device_info, saved) ==
    LET pairing_code == IF Truthy(config.pairing_code) THEN config.pairing_code
                        ELSE generated
        coded == IF ~Truthy(config.pairing_code) /\ Truthy(generated)
                 THEN [config EXCEPT !.pairing_code = generated]
                 ELSE config
        device_id == IF Truthy(device_info.device_id) THEN device_info.device_id
                     ELSE ApiDeviceId
        paired == Truthy(pairing_code) /\ device_info.found /\ Truthy(device_id)
    IN  /\ config' = IF paired
                     THEN [coded EXCEPT !.device_id = device_id,
                                        !.screen_id = device_info.screen_id,
                                        !.pairing_code = None]
                     ELSE coded
        /\ persisted' = IF paired /\ saved["pairing"] THEN config'
                        ELSE IF coded # config /\ saved["code"] THEN coded
                        ELSE persisted
        /\ UNCHANGED backup
        /\ last_op' = [NoOp(op) EXCEPT
                          !.shown = IF Truthy(pairing_code) THEN "pairing_code" ELSE "error",
                          !.code = pairing_code]
        /\ UNCHANGED <<cache_info, disk, current_playlist, current_index, clock,
                       calls, base, _content_sync_counter, invocations>>

\* handle_waiting_for_media
handle_waiting_for_media(op, answer) ==
    IF ~Truthy(config.screen_id)
    THEN /\ last_op' = NoOp(op)
         /\ UNCHANGED <<config, cache_info, disk, current_playlist, current_index,
                        clock, calls, base, _content_sync_counter, invocations>>
         /\ UNCHANGED <<persisted, backup>>
    ELSE /\ CallSyncContent(op, answer, NoFault)
         /\ UNCHANGED <<config, _content_sync_counter, invocations>>
         /\ UNCHANGED <<persisted, backup>>

\* A counter that is compared before it is incremented.
SyncDueAfterFive(counter) == counter >= 5

\* self._content_sync_counter += 1; if self._content_sync_counter >= 5
SyncDue(counter) == counter + 1 >= 5

\* handle_playing_content_threaded: the fifth call syncs before it asks for
\* the item to display.
handle_playing_content_threaded(op, answer) ==
    LET due == SyncDue(_content_sync_counter)
        synced == IF due THEN SyncResult(answer, NoFault)
                  ELSE SyncStart(cache_info, disk, clock, current_playlist)
    IN  \E r \in {synced} :
        \E c \in {get_current_content(r.playlist, current_index)} :
            /\ r.clock <= MaxClock
            /\ (IF r.ran THEN 0 ELSE calls) < MaxCalls
            /\ invocations < MaxInvocations
            /\ invocations' = invocations + 1
            /\ _content_sync_counter' = IF due THEN 0 ELSE _content_sync_counter + 1
            /\ cache_info' = r.cache_info
            /\ disk' = r.disk
            /\ clock' = r.clock
            /\ current_playlist' = r.playlist
            /\ current_index' = c.index
            /\ last_op' = [SyncRecord(op, IF due THEN answer
                                          ELSE [status |-> "error", media_assets |-> <<>>], r)
                              EXCEPT !.item = c.item, !.resized = FALSE, !.forced = due,
                                     !.after_resize =
                                        r.ran /\ Len(r.playlist) # Len(current_playlist)]
            /\ calls' = (IF r.ran THEN 0 ELSE calls) + 1
            /\ base' = IF r.ran THEN NextPosition(r.playlist, current_index) ELSE base
            /\ UNCHANGED <<config, persisted, backup>>

\* handle_playing_content, the handler of the single-threaded loop: the same
\* counter, sync and item as the threaded handler, with blocking waits.
handle_playing_content(op, answer) == handle_playing_content_threaded(op, answer)

HandleNotPaired ==
    /\ \E generated \in {None, PairingCode}, device_info \in DeviceInfos :
            handle_not_paired("not_paired", generated, device_info, Saved)
    /\ UNCHANGED loop_state
    /\ UNCHANGED <<command_vars, interrupt_vars, handler_vars>>

HandleWaitingForMedia ==
    /\ \E answer \in Answers(LifeLists) : handle_waiting_for_media("waiting", answer)
    /\ UNCHANGED loop_state
    /\ UNCHANGED <<command_vars, interrupt_vars, handler_vars>>

HandlePlayingContentThreaded ==
    /\ \E answer \in Answers(LifeLists) : handle_playing_content_threaded("playing", answer)
    /\ UNCHANGED loop_state
    /\ UNCHANGED <<command_vars, interrupt_vars, handler_vars>>

HandlePlayingContent ==
    /\ \E answer \in Answers(LifeLists) : handle_playing_content("playing_legacy", answer)
    /\ UNCHANGED loop_state
    /\ UNCHANGED <<command_vars, interrupt_vars, handler_vars>>

\* One iteration of the display loop of _run_threaded: the state is computed
\* by get_current_state(self.content) and its handler dispatched; an
\* exception is logged and the loop sleeps.
RunThreadedIteration ==
    \E current_state \in {call_get_current_state(config, 1)} :
        /\ loop_state' = current_state
        /\ UNCHANGED <<command_vars, interrupt_vars, handler_vars>>
        /\ IF current_state = NOT_PAIRED
           THEN \E generated \in {None, PairingCode}, device_info \in DeviceInfos :
                    handle_not_paired("loop", generated, device_info, Saved)
           ELSE IF current_state = WAITING_FOR_MEDIA
           THEN \E answer \in Answers(LifeLists) : handle_waiting_for_media("loop", answer)
           ELSE IF current_state = PLAYING_CONTENT
           THEN \E answer \in Answers(LifeLists) :
                    handle_playing_content_threaded("loop", answer)
           ELSE /\ last_op' = NoOp("loop")
                /\ UNCHANGED <<config, cache_info, disk, current_playlist, current_index,
                               clock, calls, base, _content_sync_counter, invocations>>
                /\ UNCHANGED <<persisted, backup>>

\* One iteration of the loop of _run_legacy: the state is computed by
\* get_current_state(self.content) and its handler dispatched, with no
\* try/except around either.  An exception leaves _run_legacy; run() logs it
\* and calls shutdown(), which clears running and, threading being disabled,
\* sets no event.
RunLegacyIteration ==
    /\ running
    /\ \E current_state \in {call_get_current_state(config, 1)} :
        /\ loop_state' = current_state
        /\ UNCHANGED <<command_vars, handler_vars>>
        /\ UNCHANGED <<interrupt_display, shutdown_event, pc, left, batch_left, wake,
                       last_sleep, signals, early>>
        /\ IF current_state = "TypeError"
           THEN /\ running' = FALSE
                /\ last_op' = [NoOp("legacy_loop") EXCEPT !.raised = TRUE]
                /\ UNCHANGED <<config, cache_info, disk, current_playlist, current_index,
                               clock, calls, base, _content_sync_counter, invocations>>
                /\ UNCHANGED <<persisted, backup>>
           ELSE /\ UNCHANGED running
                /\ IF current_state = NOT_PAIRED
                   THEN \E generated \in {None, PairingCode}, device_info \in DeviceInfos :
                            handle_not_paired("legacy_loop", generated, device_info, Saved)
                   ELSE IF current_state = WAITING_FOR_MEDIA
                   THEN \E answer \in Answers(LifeLists) :
                            handle_waiting_for_media("legacy_loop", answer)
                   ELSE \E answer \in Answers(LifeLists) :
                            handle_playing_content("legacy_loop", answer)

(***************************************************************************)
(* The poll cycles of the command side.                                    *)
(***************************************************************************)
\* What a cycle leaves behind: its record, the gateway's queue without the
\* commands it saw end, and the commands that ended on the device.
EndCycle(log) ==
    /\ cycle' = log
    /\ pending' = pending \ Acknowledged(log)
    /\ done' = done \cup Ended(log)

\* A cycle whose poll raises: both loops catch the exception.
PollRaises(variant) ==
    EndCycle([NoCycle(variant) EXCEPT !.poll = "raises", !.done_before = done])

\* The record of a cycle that polled batch and goes through it as commands,
\* the i-th of them under plans[i].
Polled(variant, batch, commands, plans) ==
    [NoCycle(variant) EXCEPT !.poll = "ok", !.polled = batch, !.commands = commands,
                             !.plans = plans, !.done_before = done]

\* One iteration of MesophyPiClient._command_loop, the command worker of the
\* threaded client.
CommandLoopIteration ==
    /\ \/ PollRaises("threaded")
       \/ \E batch \in poll_commands(pending, 5) : \E plans \in BatchPlans(batch) :
              \E commands \in {SortByPriority(batch)} :
                  EndCycle(RunBatchThreaded(commands, plans, 1,
                                            Polled("threaded", batch, commands, plans)))
    /\ UNCHANGED <<client_vars, interrupt_vars, handler_vars>>

\* MesophyPiClient._poll_and_execute_commands, the poll of the
\* single-threaded client.
PollAndExecuteCommands ==
    /\ \/ PollRaises("legacy")
       \/ \E batch \in poll_commands(pending, 3) : \E plans \in BatchPlans(batch) :
              EndCycle(RunBatchLegacy(batch, plans, 1, Polled("legacy", batch, batch, plans)))
    /\ UNCHANGED <<client_vars, interrupt_vars, handler_vars>>

(***************************************************************************)
(* The workers of the threaded client, one step at a time.                 *)
(***************************************************************************)
\* while self.running and not self.shutdown_event.is_set(), the condition of
\* the three worker loops.
LoopGoesOn == running /\ ~shutdown_event

\* The durations a sleep is asked for, in naps of 100 ms.
Durations == 1..MaxNaps

\* _interruptible_sleep(duration) is entered by the worker w: end_time is
\* set.
StartSleep(w, duration) ==
    /\ pc' = [pc EXCEPT ![w] = "wait"]
    /\ left' = [left EXCEPT ![w] = duration]
    /\ wake' = [wake EXCEPT ![w] = NoWake]

\* The worker w finds its loop condition false and ends.
StopWorker(w) ==
    /\ pc' = [pc EXCEPT ![w] = "stopped"]
    /\ UNCHANGED <<left, wake>>

\* _interruptible_sleep returns ret to the worker w.
ReturnFromSleep(w, ret) ==
    /\ pc' = [pc EXCEPT ![w] = "run"]
    /\ last_sleep' = [worker |-> w, ret |-> ret, full |-> wake[w].full,
                      saw |-> wake[w].saw, shut |-> wake[w].shut, owed |-> wake[w].owed]
    /\ wake' = [wake EXCEPT ![w] = NoWake]
    /\ early' = IF ~wake[w].full /\ ~wake[w].shut /\ early <= signals
                THEN early + 1 ELSE early

\* An iteration of the display loop of _run_threaded up to the wait that
\* ends it (the display of an image, the playback of a video, a waiting
\* sleep).
DisplayWork ==
    /\ pc["display"] = "run"
    /\ IF LoopGoesOn
       THEN \E duration \in Durations : StartSleep("display", duration)
       ELSE StopWorker("display")
    /\ UNCHANGED <<running, interrupt_display, shutdown_event, batch_left, last_sleep,
                   signals, early>>
    /\ UNCHANGED <<client_vars, command_vars, handler_vars>>

\* An iteration of _heartbeat_loop up to its sleep.
HeartbeatWork ==
    /\ pc["heartbeat"] = "run"
    /\ IF LoopGoesOn
       THEN \E duration \in Durations : StartSleep("heartbeat", duration)
       ELSE StopWorker("heartbeat")
    /\ UNCHANGED <<running, interrupt_display, shutdown_event, batch_left, last_sleep,
                   signals, early>>
    /\ UNCHANGED <<client_vars, command_vars, handler_vars>>

\* The commands of batch that are urgent (priority <= 2).
UrgentIn(batch) == Cardinality({ i \in DOMAIN batch : Priority(batch[i]) <= 2 })

\* _command_loop polls: with no command (or a poll that raises) it goes to
\* its sleep, with a batch it sorts the batch and starts on it.
CommandPoll ==
    /\ pc["command"] = "run"
    /\ IF ~LoopGoesOn
       THEN StopWorker("command") /\ UNCHANGED batch_left
       ELSE \/ /\ \E duration \in Durations : StartSleep("command", duration)
               /\ UNCHANGED batch_left
            \/ \E batch \in poll_commands(pending, 5) :
                   /\ batch # <<>>
                   /\ Len(batch) <= MaxBatch
                   /\ signals + UrgentIn(batch) <= MaxSignals
                   /\ batch_left' = SortByPriority(batch)
                   /\ pc' = [pc EXCEPT !["command"] = "next"]
                   /\ UNCHANGED <<left, wake>>
    /\ UNCHANGED <<running, interrupt_display, shutdown_event, last_sleep, signals, early>>
    /\ UNCHANGED <<client_vars, command_vars, handler_vars>>

\* _command_loop takes the next command of the batch: an urgent one
\* (priority <= 2) sets interrupt_display.  A sleep that is under way with
\* time left is owed an early return.
CommandSignal ==
    /\ pc["command"] = "next"
    /\ IF Priority(batch_left[1]) <= 2
       THEN /\ signals < MaxSignals
            /\ interrupt_display' = TRUE
            /\ signals' = signals + 1
            /\ wake' = [w \in Workers |->
                          IF pc[w] = "wait" /\ left[w] >= 1
                          THEN [wake[w] EXCEPT !.owed = TRUE] ELSE wake[w]]
       ELSE UNCHANGED <<interrupt_display, signals, wake>>
    /\ pc' = [pc EXCEPT !["command"] = "exec"]
    /\ UNCHANGED <<running, shutdown_event, left, batch_left, last_sleep, early>>
    /\ UNCHANGED <<client_vars, command_vars, handler_vars>>

\* execute_command ends for the command taken: the worker goes on with the
\* next command, or to its sleep after the last one and after an exception.
CommandExecute ==
    /\ pc["command"] = "exec"
    /\ \E raised \in BOOLEAN :
           IF raised \/ Len(batch_left) = 1
           THEN /\ batch_left' = <<>>
                /\ \E duration \in Durations : StartSleep("command", duration)
           ELSE /\ batch_left' = Tail(batch_left)
                /\ pc' = [pc EXCEPT !["command"] = "next"]
                /\ UNCHANGED <<left, wake>>
    /\ UNCHANGED <<running, interrupt_display, shutdown_event, last_sleep, signals, early>>
    /\ UNCHANGED <<client_vars, command_vars, handler_vars>>

\* The while condition without the test of shutdown_event.
SleepCheckBlindToShutdown(w) ==
    /\ pc[w] = "wait"
    /\ IF left[w] = 0 \/ interrupt_display
       THEN /\ pc' = [pc EXCEPT ![w] = "woken"]
            /\ wake' = [wake EXCEPT ![w] =
                          [full |-> left[w] = 0,
                           saw |-> left[w] > 0 /\ interrupt_display,
                           shut |-> shutdown_event,
                           owed |-> wake[w].owed]]
            /\ left' = [left EXCEPT ![w] = 0]
       ELSE /\ left' = [left EXCEPT ![w] = left[w] - 1]
            /\ UNCHANGED <<pc, wake>>

\* The while condition of _interruptible_sleep, evaluated by the worker w:
\* the sleep leaves the loop when its time is up or one of the events is
\* set, and naps 100 ms otherwise.
SleepCheck(w) ==
    /\ pc[w] = "wait"
    /\ IF left[w] = 0 \/ interrupt_display \/ shutdown_event
       THEN /\ pc' = [pc EXCEPT ![w] = "woken"]
            /\ wake' = [wake EXCEPT ![w] =
                          [full |-> left[w] = 0,
                           saw |-> left[w] > 0 /\ interrupt_display,
                           shut |-> shutdown_event,
                           owed |-> wake[w].owed]]
            /\ left' = [left EXCEPT ![w] = 0]
       ELSE /\ left' = [left EXCEPT ![w] = left[w] - 1]
            /\ UNCHANGED <<pc, wake>>

\* interrupted = self.interrupt_display.is_set(), read by the worker w after
\* the loop.
SleepRead(w) ==
    /\ pc[w] = "woken"
    /\ IF interrupt_display
       THEN /\ pc' = [pc EXCEPT ![w] = "clear"]
            /\ UNCHANGED <<wake, last_sleep, early>>
       ELSE ReturnFromSleep(w, "False")

\* self.interrupt_display.clear() and return interrupted.
SleepClear(w) ==
    /\ pc[w] = "clear"
    /\ interrupt_display' = FALSE
    /\ ReturnFromSleep(w, "True")

\* The steps of the sleeps of the workers.
Check ==
    /\ \E w \in Workers : SleepCheck(w)
    /\ UNCHANGED <<running, interrupt_display, shutdown_event, batch_left, last_sleep,
                   signals, early>>
    /\ UNCHANGED <<client_vars, command_vars, handler_vars>>

Read ==
    /\ \E w \in Workers : SleepRead(w)
    /\ UNCHANGED <<running, interrupt_display, shutdown_event, left, batch_left, signals>>
    /\ UNCHANGED <<client_vars, command_vars, handler_vars>>

Clear ==
    /\ \E w \in Workers : SleepClear(w)
    /\ UNCHANGED <<running, shutdown_event, left, batch_left, signals>>
    /\ UNCHANGED <<client_vars, command_vars, handler_vars>>

\* if self.config.get('device_id'): send_heartbeat_with_status('offline'),
\* which posts the heartbeat if device_id is set.
OfflineHeartbeat(cfg) == Truthy(cfg.device_id)

\* MesophyPiClient.shutdown, which run() calls when the display loop ends or
\* is interrupted from the keyboard: running is cleared, both events are set
\* and the offline heartbeat is sent.
Shutdown ==
    /\ pc["display"] # "stopped"
    /\ running' = FALSE
    /\ shutdown_event' = TRUE
    /\ interrupt_display' = TRUE
    /\ pc' = [pc EXCEPT !["display"] = "stopped"]
    /\ last_op' = [NoOp("shutdown") EXCEPT !.offline_sent = OfflineHeartbeat(config)]
    /\ UNCHANGED <<left, batch_left, wake, last_sleep, signals, early>>
    /\ UNCHANGED <<config, cache_info, disk, current_playlist, current_index, clock,
                   loop_state, calls, base, _content_sync_counter, invocations,
                   persisted, backup>>
    /\ UNCHANGED <<command_vars, handler_vars>>

(***************************************************************************)
(* The configuration: the pairing mutation step by step and the            *)
(* update-config command, which the command worker runs meanwhile.         *)
(***************************************************************************)
\* The config_updates a command carries: none, a key of the device record,
\* a key outside it.
ConfigUpdates ==
    { EmptyDict, [k \in {"screen_id"} |-> "screen-2"], [k \in {"log_level"} |-> "DEBUG"] }

\* What the file operations of the handler meet.
UpdateOutcomes == {"ok", "backup_fails", "write_fails", "write_truncated"}

\* A file that open(path, 'w') emptied before the write failed.
Truncated == [NoFile EXCEPT !.exists = TRUE]

\* An update that is merged into the file rather than over the running
\* configuration.
MergeIntoFile(cfg, file, updates) ==
    [k \in DOMAIN cfg |-> IF k \in DOMAIN updates THEN updates[k]
                          ELSE IF file = NoFile THEN cfg[k] ELSE file[k]]

\* current_config = self.config.copy(); current_config.update(config_updates),
\* on the keys of the device record.
Merge(cfg, file, updates) ==
    [k \in DOMAIN cfg |-> IF k \in DOMAIN updates THEN updates[k] ELSE cfg[k]]

\* CommandExecutor._handle_update_config: the files it leaves, whether it
\* raised and the restart_required flag of its result.
_handle_update_config(cfg, file, bak, updates, outcome) ==
    IF DOMAIN updates = {}
    THEN [persisted |-> file, backup |-> bak, raised |-> TRUE, restart_required |-> FALSE]
    ELSE IF file # NoFile /\ outcome = "backup_fails"
    THEN [persisted |-> file, backup |-> bak, raised |-> TRUE, restart_required |-> FALSE]
    ELSE LET copied == IF file # NoFile THEN file ELSE bak
         IN  IF outcome = "write_fails"
             THEN [persisted |-> file, backup |-> copied, raised |-> TRUE,
                   restart_required |-> FALSE]
             ELSE IF outcome = "write_truncated"
             THEN [persisted |-> Truncated, backup |-> copied, raised |-> TRUE,
                   restart_required |-> FALSE]
             ELSE [persisted |-> Merge(cfg, file, updates), backup |-> copied,
                   raised |-> FALSE, restart_required |-> TRUE]

\* The update-config command, run by the command worker.
UpdateConfig ==
    /\ \E updates \in ConfigUpdates, outcome \in UpdateOutcomes :
        \E r \in {_handle_update_config(config, persisted, backup, updates, outcome)} :
            /\ persisted' = r.persisted
            /\ backup' = r.backup
            /\ last_op' = [NoOp("update_config") EXCEPT
                              !.updates = updates, !.outcome = outcome,
                              !.raised = r.raised,
                              !.restart_required = r.restart_required,
                              !.config_before = config, !.file_before = persisted]
    /\ UNCHANGED <<config, cache_info, disk, current_playlist, current_index, clock,
                   loop_state, calls, base, _content_sync_counter, invocations>>
    /\ UNCHANGED <<command_vars, interrupt_vars, handler_vars>>

\* handle_not_paired up to the moment the pairing is known: the code is
\* obtained, stored and saved, and the gateway's answer on the pairing is in.
\* Without a pairing the handler ends here.
NotPairedBegin ==
    /\ pc["display"] = "run"
    /\ get_current_state(config) = NOT_PAIRED
    /\ \E generated \in {None, PairingCode}, device_info \in DeviceInfos,
          saved \in SaveOutcomes :
        LET pairing_code == IF Truthy(config.pairing_code) THEN config.pairing_code
                            ELSE generated
            coded == IF ~Truthy(config.pairing_code) /\ Truthy(generated)
                     THEN [config EXCEPT !.pairing_code = generated]
                     ELSE config
            device_id == IF Truthy(device_info.device_id) THEN device_info.device_id
                         ELSE ApiDeviceId
            paired == Truthy(pairing_code) /\ device_info.found /\ Truthy(device_id)
        IN  /\ persisted' = IF coded # config /\ saved["code"] THEN coded ELSE persisted
            /\ config' = IF paired
                         THEN [coded EXCEPT !.device_id = device_id,
                                            !.screen_id = device_info.screen_id]
                         ELSE coded
            /\ pc' = [pc EXCEPT !["display"] = IF paired THEN "pairing" ELSE "run"]
            /\ last_op' = [NoOp("not_paired") EXCEPT
                              !.shown = IF Truthy(pairing_code) THEN "pairing_code"
                                        ELSE "error",
                              !.code = pairing_code]
    /\ UNCHANGED <<cache_info, disk, current_playlist, current_index, clock,
                   loop_state, calls, base, _content_sync_counter, invocations, backup>>
    /\ UNCHANGED <<command_vars, handler_vars, running, interrupt_display, shutdown_event, left,
                   batch_left, wake, last_sleep, signals, early>>

\* handle_not_paired after device_id and screen_id are stored: the pairing
\* code is cleared and the configuration saved.
NotPairedEnd ==
    /\ pc["display"] = "pairing"
    /\ config' = [config EXCEPT !.pairing_code = None]
    /\ \E saved \in SaveOutcomes :
           persisted' = IF saved["pairing"] THEN config' ELSE persisted
    /\ pc' = [pc EXCEPT !["display"] = "run"]
    /\ last_op' = NoOp("paired")
    /\ UNCHANGED <<cache_info, disk, current_playlist, current_index, clock,
                   loop_state, calls, base, _content_sync_counter, invocations, backup>>
    /\ UNCHANGED <<command_vars, handler_vars, running, interrupt_display, shutdown_event, left,
                   batch_left, wake, last_sleep, signals, early>>

\* StateManager.set_paired and StateManager.clear_pairing
SetPaired ==
    /\ pc["display"] = "run"
    /\ \/ config' = [config EXCEPT !.device_id = ApiDeviceId, !.screen_id = "screen-1",
                                     !.pairing_code = None]
       \/ config' = [config EXCEPT !.device_id = None, !.screen_id = None,
                                     !.pairing_code = None]
    /\ last_op' = NoOp("set_paired")
    /\ UNCHANGED <<cache_info, disk, current_playlist, current_index, clock,
                   loop_state, calls, base, _content_sync_counter, invocations,
                   persisted, backup>>
    /\ UNCHANGED <<command_vars, interrupt_vars, handler_vars>>

(***************************************************************************)
(* The command handlers of CommandExecutor (lib/command_executor.py) that  *)
(* restart the service, clear the cache and check the device's health.     *)
(***************************************************************************)
\* What subprocess.run(['sudo', 'systemctl', 'restart', ...], timeout=30)
\* does: the command exits with 0 or with another code, does not end within
\* the timeout (TimeoutExpired), or cannot be launched (OSError).
RunOutcomes == {"exit_0", "exit_1", "timeout", "launch_error"}

\* What os.kill(os.getpid(), 15) does.
KillOutcomes == {"ok", "raises"}

\* _handle_restart: the result it returns or the exception it raises, and
\* whether os.kill was called.
_handle_restart(run, kill) ==
    IF run = "exit_0"
    THEN [NoHandler("restart") EXCEPT !.run = run, !.method = "systemctl",
                                      !.status = "restarted"]
    ELSE IF run = "exit_1"
    THEN IF kill = "ok"
         THEN [NoHandler("restart") EXCEPT !.run = run, !.fallback = TRUE,
                                           !.method = "process_kill",
                                           !.status = "restarting"]
         ELSE [NoHandler("restart") EXCEPT !.run = run, !.fallback = TRUE,
                                           !.raised = TRUE]
    ELSE [NoHandler("restart") EXCEPT !.run = run, !.raised = TRUE]

\* The restart command.
HandleRestart ==
    /\ \E run \in RunOutcomes, kill \in KillOutcomes :
            handled' = _handle_restart(run, kill)
    /\ UNCHANGED <<index_file, content_cache_info, gateway_screen, sent, player_vars>>
    /\ UNCHANGED <<client_vars, command_vars, interrupt_vars>>

\* The name of cache_info_file in the cache directory, as os.listdir gives
\* it next to the local filenames.
IndexItem == <<"", "cache_info.json">>

\* os.listdir(cache_dir): the media files and, once it has been written,
\* cache_info.json.  ContentManager writes nothing else to the directory.
Listing(d, idx) == DOMAIN d \cup (IF idx THEN {IndexItem} ELSE {})

\* item.endswith('.json'), over the names of the model.
EndsWithJson(item) == item[2] \in {"cache_info.json"}

\* os.path.getsize in MiB; cache_info.json is a few hundred bytes, 0.00 MiB
\* after rounding to two places.
GetSize(d, item) == IF item = IndexItem THEN 0 ELSE d[item]

\* The sum of os.path.getsize over items.
RECURSIVE TotalSize(_, _)
TotalSize(items, d) ==
    IF items = {} THEN 0
    ELSE LET item == CHOOSE x \in items : TRUE
         IN  GetSize(d, item) + TotalSize(items \ {item}, d)

\* The items whose os.remove raises: the files of the ids in stuck.
Undeletable(d, stuck) == { item \in DOMAIN d : item[1] \in stuck }

\* The deletion loop keeping nothing: every listed item is removed unless
\* its removal raises.
DeletedByPassSparingNothing(d, idx, stuck) == Listing(d, idx) \ Undeletable(d, stuck)

\* The deletion loop of _handle_clear_cache and _handle_restart_content: the
\* items it removes.  An item whose name ends in .json is skipped, a failed
\* removal is logged and the loop goes on.
DeletedByPass(d, idx, stuck) ==
    { item \in Listing(d, idx) : ~EndsWithJson(item) } \ Undeletable(d, stuck)

\* The media files left by the deletion loop.
AfterPass(d, idx, stuck) ==
    [item \in DOMAIN d \ DeletedByPass(d, idx, stuck) |-> d[item]]

\* cache_info.json is in the directory after the deletion loop.
IndexAfterPass(d, idx, stuck) == idx /\ IndexItem \notin DeletedByPass(d, idx, stuck)

\* sync_content of a ContentManager constructed by a command handler: its
\* cache_info is loaded from cache_info.json, its playlist is empty.
HandlerSync(d, answer, fault) ==
    sync_content(config.screen_id, answer,
                 Outcomes(get_media_list(answer), fault), fault.rm_fail,
                 SyncStart(cache_info, d, clock, <<>>))

\* ContentManager.get_cache_stats: total_files and total_size_mb.
get_cache_stats(ci, d) ==
    [total_files |-> Cardinality(DOMAIN ci),
     total_size_mb |-> SizeOf(CacheItems(ci, d), ci, d)]

\* What a handler's sync leaves in the cache directory.
CacheAfter(r, idx) ==
    /\ r.clock <= MaxClock
    /\ cache_info' = r.cache_info
    /\ disk' = r.disk
    /\ clock' = r.clock
    /\ index_file' = (idx \/ r.index_written)
    /\ UNCHANGED <<content_cache_info, gateway_screen, sent, player_vars>>

\* The size freed as the walk before the deletion loop counts it: the size
\* of every file of the directory.
SizeBefore(d, idx) == TotalSize(Listing(d, idx), d)

\* files_removed of _handle_clear_cache: the files os.walk finds before the
\* deletion loop runs.
CountWalked(d, idx) == Cardinality(Listing(d, idx))

\* _handle_clear_cache: the walk, the deletion loop, the sync of a new
\* ContentManager (an exception of which is logged) and the result.
_handle_clear_cache(stuck, answer, fault) ==
    \E r \in {HandlerSync(AfterPass(disk, index_file, stuck), answer, fault)} :
        /\ CacheAfter(r, IndexAfterPass(disk, index_file, stuck))
        /\ handled' = [NoHandler("clear_cache") EXCEPT
                !.status = "cleared",
                !.listed = Listing(disk, index_file),
                !.index_before = index_file,
                !.deleted = DeletedByPass(disk, index_file, stuck),
                !.undeletable = Undeletable(disk, stuck),
                !.files_removed = CountWalked(disk, index_file),
                !.size_freed_mb = SizeBefore(disk, index_file),
                !.deleted_mb = TotalSize(DeletedByPass(disk, index_file, stuck), disk),
                !.attempted = r.attempted, !.stored = r.stored, !.evicted = r.evicted,
                !.ran = r.ran, !.playlist = r.playlist]

\* _handle_restart_content: the statistics, the deletion loop, the sync, the
\* statistics again and the thread that sends SIGTERM after 3 s.
_handle_restart_content(stuck, answer, fault) ==
    \E r \in {HandlerSync(AfterPass(disk, index_file, stuck), answer, fault)} :
        /\ CacheAfter(r, IndexAfterPass(disk, index_file, stuck))
        /\ handled' = [NoHandler("restart_content") EXCEPT
                !.method = "content_restart",
                !.status = "restarting",
                !.listed = Listing(disk, index_file),
                !.index_before = index_file,
                !.deleted = DeletedByPass(disk, index_file, stuck),
                !.undeletable = Undeletable(disk, stuck),
                !.files_before = get_cache_stats(cache_info, disk).total_files,
                !.files_after = get_cache_stats(r.cache_info, r.disk).total_files,
                !.size_freed_mb = get_cache_stats(cache_info, disk).total_size_mb
                                    - get_cache_stats(r.cache_info, r.disk).total_size_mb,
                !.attempted = r.attempted, !.stored = r.stored, !.evicted = r.evicted,
                !.ran = r.ran, !.playlist = r.playlist]

\* _handle_sync_content: the sync of a new ContentManager.
_handle_sync_content(answer, fault) ==
    \E r \in {HandlerSync(disk, answer, fault)} :
        /\ CacheAfter(r, index_file)
        /\ handled' = [NoHandler("sync_content") EXCEPT
                !.status = IF r.ret THEN "synced" ELSE "no_content",
                !.listed = Listing(disk, index_file),
                !.index_before = index_file,
                !.attempted = r.attempted, !.stored = r.stored, !.evicted = r.evicted,
                !.ran = r.ran, !.playlist = r.playlist]

\* ContentManager.get_cache_stats, as the handlers and the heartbeat call
\* it: before is the index, the playlist and the cursor it was called with.
GetCacheStats ==
    /\ \E stats \in {get_cache_stats(cache_info, disk)} :
            handled' = [NoHandler("cache_stats") EXCEPT
                            !.total_files = stats.total_files,
                            !.total_size_mb = stats.total_size_mb,
                            !.before = <<cache_info, current_playlist, current_index>>]
    /\ UNCHANGED <<index_file, content_cache_info, gateway_screen, sent, player_vars>>
    /\ UNCHANGED <<client_vars, command_vars, interrupt_vars>>

\* The ids whose file a handler's deletion loop cannot remove.
Stuck == {{}, {"A"}}

\* The clear-cache command.
HandleClearCache ==
    /\ \E stuck \in Stuck, answer \in Answers(LifeLists), fault \in SyncFaults :
            _handle_clear_cache(stuck, answer, fault)
    /\ UNCHANGED <<config, current_playlist, current_index, loop_state, last_op, calls,
                   base, _content_sync_counter, invocations, persisted, backup>>
    /\ UNCHANGED <<command_vars, interrupt_vars>>

\* The restart-content command.
HandleRestartContent ==
    /\ \E stuck \in Stuck, answer \in Answers(LifeLists), fault \in SyncFaults :
            _handle_restart_content(stuck, answer, fault)
    /\ UNCHANGED <<config, current_playlist, current_index, loop_state, last_op, calls,
                   base, _content_sync_counter, invocations, persisted, backup>>
    /\ UNCHANGED <<command_vars, interrupt_vars>>

\* The sync-content command.
HandleSyncContent ==
    /\ \E answer \in Answers(LifeLists), fault \in SyncFaults :
            _handle_sync_content(answer, fault)
    /\ UNCHANGED <<config, current_playlist, current_index, loop_state, last_op, calls,
                   base, _content_sync_counter, invocations, persisted, backup>>
    /\ UNCHANGED <<command_vars, interrupt_vars>>

\* The percentages psutil reports, around the limit of the check.
Percentages == {50, 90, 95}

\* The degrees _get_cpu_temperature reads, around the limit of the check.
Temperatures == {80, 85}

\* health_data['system']: left empty when a probe of psutil raises (probed
\* is FALSE), the metrics otherwise, the temperature being None when the
\* sensor's file cannot be read (sensor is FALSE).
SystemMetrics ==
    {NoMetrics} \cup
    { [probed |-> TRUE, cpu_percent |-> cpu, memory_percent |-> mem, disk_usage |-> du,
       sensor |-> TRUE, temperature |-> temp] :
        cpu \in Percentages, mem \in Percentages, du \in Percentages,
        temp \in Temperatures } \cup
    { [probed |-> TRUE, cpu_percent |-> cpu, memory_percent |-> mem, disk_usage |-> du,
       sensor |-> FALSE, temperature |-> 0] :
        cpu \in Percentages, mem \in Percentages, du \in Percentages }

\* health_data['system'].get(key, 0)
Get(system, key) == IF system.probed THEN system[key] ELSE 0

\* health_data['system'].get('temperature', 0) is None.
TemperatureIsNone(system) == system.probed /\ ~system.sensor

\* What the ping of 8.8.8.8 does: it exits with 0 or not, or subprocess.run
\* raises.
PingOutcomes == {"exit_0", "exit_1", "raises"}

\* issues with issue appended if the condition holds.
AppendIf(issues, cond, issue) == IF cond THEN Append(issues, issue) ELSE issues

\* The list of issues of _handle_health_check.
IssuesOf(system, internet, api_server) ==
    LET i1 == AppendIf(<<>>, Get(system, "cpu_percent") > 90, "High CPU usage")
        i2 == AppendIf(i1, Get(system, "memory_percent") > 90, "High memory usage")
        i3 == AppendIf(i2, Get(system, "disk_usage") > 90, "Low disk space")
        i4 == AppendIf(i3, Get(system, "temperature") > 80, "High temperature")
        i5 == AppendIf(i4, ~internet, "No internet connectivity")
    IN  AppendIf(i5, ~api_server, "API server unreachable")

\* _handle_health_check: the metrics, the network probes, the issues and
\* the overall status.  The comparison of a temperature that is None with 80
\* raises TypeError, which the handler raises again as its failure.
_handle_health_check(system, ping, heartbeat) ==
    LET internet == ping = "exit_0"
        api_server == IF ping = "raises" THEN FALSE ELSE heartbeat
        h == [NoHandler("health_check") EXCEPT
                !.metrics = system, !.internet = internet, !.api_server = api_server]
    IN  IF TemperatureIsNone(system)
        THEN [h EXCEPT !.raised = TRUE]
        ELSE LET issues == IssuesOf(system, internet, api_server)
             IN  [h EXCEPT
                    !.issues = issues,
                    !.overall_status =
                        IF issues = <<>> THEN "healthy"
                        ELSE IF Len(issues) <= 2 THEN "warning" ELSE "critical"]

\* The health-check command.
HandleHealthCheck ==
    /\ \E system \in SystemMetrics, ping \in PingOutcomes, heartbeat \in BOOLEAN :
            handled' = _handle_health_check(system, ping, heartbeat)
    /\ UNCHANGED <<index_file, content_cache_info, gateway_screen, sent, player_vars>>
    /\ UNCHANGED <<client_vars, command_vars, interrupt_vars>>

(***************************************************************************)
(* Specifications.                                                         *)
(***************************************************************************)
\* The life cycle of the client.
Next ==
    \/ GetCurrentState
    \/ HandleNotPaired
    \/ HandleWaitingForMedia
    \/ HandlePlayingContentThreaded
    \/ HandlePlayingContent
    \/ RunThreadedIteration

Spec == Init /\ [][Next]_vars

\* The display loop keeps iterating while the client runs.  An iteration
\* that raises leaves every variable as the iteration before left it: the
\* loop then goes on iterating without any change of state.
FairSpec == Spec /\ WF_vars(RunThreadedIteration)

\* The life cycle of the client under either control loop.
NextLoop ==
    \/ GetCurrentState
    \/ HandleNotPaired
    \/ HandleWaitingForMedia
    \/ HandlePlayingContentThreaded
    \/ HandlePlayingContent
    \/ RunThreadedIteration
    \/ RunLegacyIteration

LoopSpec == Init /\ [][NextLoop]_vars

\* The cache of a paired device under syncs with faults.
NextCache == SyncContent

CacheSpec == InitPaired /\ [][NextCache]_vars

\* Playback on a paired device.
NextPlay ==
    \/ SyncPlaylist
    \/ GetCurrentContent

PlaySpec == InitPaired /\ [][NextPlay]_vars

\* The command side of a paired device: the command worker of the threaded
\* client and the poll of the single-threaded one.
NextCommand ==
    \/ CommandLoopIteration
    \/ PollAndExecuteCommands

CommandSpec == InitPaired /\ [][NextCommand]_vars

\* The three workers of the threaded client of a paired device, interleaved.
NextInterrupt ==
    \/ DisplayWork
    \/ HeartbeatWork
    \/ CommandPoll
    \/ CommandSignal
    \/ CommandExecute
    \/ Check
    \/ Read
    \/ Clear
    \/ Shutdown

InterruptSpec == InitPaired /\ [][NextInterrupt]_vars

\* The workers of a device that is paired or not, each thread being
\* scheduled again and again: a step of a worker that stays possible is
\* eventually taken.  shutdown() itself is called when the environment
\* decides.
ShutdownSpec ==
    /\ InitWith({PairedConfig, FreshConfig})
    /\ [][NextInterrupt]_vars
    /\ WF_vars(HeartbeatWork) /\ WF_vars(CommandPoll) /\ WF_vars(CommandSignal)
    /\ WF_vars(CommandExecute) /\ WF_vars(Check) /\ WF_vars(Read) /\ WF_vars(Clear)

\* The configuration of a device from its first start on.
NextConfig ==
    \/ NotPairedBegin
    \/ NotPairedEnd
    \/ SetPaired
    \/ UpdateConfig

ConfigSpec == Init /\ [][NextConfig]_vars

\* The command handlers that work on the cache directory of a paired device,
\* one at a time.
NextCacheHandlers ==
    \/ HandleSyncContent
    \/ HandleClearCache
    \/ HandleRestartContent
    \/ GetCacheStats

CacheHandlersSpec == InitPaired /\ [][NextCacheHandlers]_vars

\* self.content.sync_content() of the client, beside the handlers' own
\* ContentManager objects: it works on the cache_info it loaded when it was
\* constructed and changed since, and _save_cache_info dumps that dict over
\* cache_info.json whenever the sync changes it.
WorkerSync ==
    /\ \E answer \in Answers(LifeLists) :
         \E r \in {sync_content(config.screen_id, answer,
                                Outcomes(get_media_list(answer), NoFault), {},
                                SyncStart(content_cache_info, disk, clock,
                                          current_playlist))} :
            /\ r.clock <= MaxClock
            /\ content_cache_info' = r.cache_info
            /\ cache_info' = IF r.index_written THEN r.cache_info ELSE cache_info
            /\ index_file' = (index_file \/ r.index_written)
            /\ disk' = r.disk
            /\ clock' = r.clock
            /\ current_playlist' = r.playlist
            /\ last_op' = [NoOp("worker_sync") EXCEPT
                                !.list = get_media_list(answer),
                                !.status = answer.status,
                                !.ran = r.ran, !.ret = r.ret,
                                !.attempted = r.attempted, !.stored = r.stored,
                                !.evicted = r.evicted,
                                !.index_written = r.index_written]
            /\ calls' = IF r.ran THEN 0 ELSE calls
            /\ base' = IF r.ran THEN NextPosition(r.playlist, current_index) ELSE base
    /\ UNCHANGED <<config, current_index, loop_state, _content_sync_counter, invocations,
                   persisted, backup, handled, gateway_screen, sent, player_vars>>
    /\ UNCHANGED <<command_vars, interrupt_vars>>

\* The client's ContentManager and the ones the command handlers construct,
\* on one cache directory.
NextSharedCache ==
    \/ WorkerSync
    \/ HandleSyncContent
    \/ HandleClearCache
    \/ HandleRestartContent

SharedCacheSpec == InitPaired /\ [][NextSharedCache]_vars

\* A device that was paired before a screen was assigned to it.
PairedNoScreen == [device_id |-> ApiDeviceId, screen_id |-> None, pairing_code |-> None]

\* An operator assigns a screen to the device at the gateway.
AssignScreen ==
    /\ gateway_screen = None
    /\ gateway_screen' = "screen-1"
    /\ UNCHANGED <<index_file, handled, content_cache_info, sent, player_vars>>
    /\ UNCHANGED <<client_vars, command_vars, interrupt_vars>>

\* What get_device_info returns while the gateway holds screen for the
\* device: None, or the device_config of the pairing response.
DeviceInfosAt(screen) ==
    { [found |-> FALSE, device_id |-> None, screen_id |-> None],
      [found |-> TRUE, device_id |-> ApiDeviceId, screen_id |-> screen] }

\* handle_not_paired against the gateway's record of the device.
HandleNotPairedAtGateway ==
    /\ get_current_state(config) = NOT_PAIRED
    /\ \E generated \in {None, PairingCode}, device_info \in DeviceInfosAt(gateway_screen) :
            handle_not_paired("not_paired", generated, device_info, Saved)
    /\ UNCHANGED loop_state
    /\ UNCHANGED <<command_vars, interrupt_vars, handler_vars>>

\* handle_waiting_for_media, dispatched for a paired device.
HandleWaitingPaired ==
    /\ get_current_state(config) = WAITING_FOR_MEDIA
    /\ HandleWaitingForMedia

\* A device from its first start on, a screen being assigned to it at the
\* gateway before or after it is paired; the display loop keeps dispatching
\* the handler of the current state.
NextAssign ==
    \/ AssignScreen
    \/ HandleNotPairedAtGateway
    \/ HandleWaitingPaired
    \/ UpdateConfig

AssignSpec ==
    /\ InitWith({FreshConfig, PairedNoScreen})
    /\ [][NextAssign]_vars
    /\ WF_vars(HandleNotPairedAtGateway)
    /\ WF_vars(HandleWaitingPaired)

(***************************************************************************)
(* Heartbeats and command polls as the gateway receives them.              *)
(***************************************************************************)
\* The requests a run may send.
MaxSent == 3

\* A POST to /api/devices/{device_id}/heartbeat with the given status, sent
\* by the given caller.
Heartbeat(status, by) == [kind |-> "heartbeat", status |-> status, by |-> by]

\* A poll of the command queue.
Poll(by) == [kind |-> "poll", status |-> None, by |-> by]

\* APIClient.send_heartbeat, send_enhanced_heartbeat and
\* send_heartbeat_with_status: without device_id they return False before
\* any request, with it they post the status.
send_heartbeat_with_status(cfg, status, by, log) ==
    IF ~Truthy(cfg.device_id) THEN log ELSE Append(log, Heartbeat(status, by))

\* _send_enhanced_heartbeat with the state computed by get_current_state().
_send_enhanced_heartbeat_state_without_argument(cfg, by, log) ==
    IF call_get_current_state(cfg, 0) = "TypeError" THEN log
    ELSE send_heartbeat_with_status(cfg, "online", by, log)

\* MesophyPiClient._send_enhanced_heartbeat: the statistics are gathered, the
\* state is computed by get_current_state(self.content) and the heartbeat is
\* posted; an exception on the way is logged.
_send_enhanced_heartbeat(cfg, by, log) ==
    IF call_get_current_state(cfg, 1) = "TypeError" THEN log
    ELSE send_heartbeat_with_status(cfg, "online", by, log)

\* _send_heartbeat_if_needed without the test of device_id.
_send_heartbeat_if_needed_unpaired(cfg, due, log) ==
    IF ~due THEN log
    ELSE Append(_send_enhanced_heartbeat(cfg, "legacy_loop", log), Poll("legacy_loop"))

\* MesophyPiClient._send_heartbeat_if_needed: when the interval has passed
\* (due) and device_id is set, the heartbeat and then the poll.
_send_heartbeat_if_needed(cfg, due, log) ==
    IF ~due THEN log
    ELSE IF ~Truthy(cfg.device_id) THEN log
    ELSE Append(_send_enhanced_heartbeat(cfg, "legacy_loop", log), Poll("legacy_loop"))

\* What a step that only sends leaves alone.
SendFrame ==
    /\ UNCHANGED <<config, cache_info, disk, current_playlist, current_index, clock,
                   loop_state, calls, base, _content_sync_counter, invocations,
                   persisted, backup>>
    /\ UNCHANGED <<index_file, handled, content_cache_info, gateway_screen, player_vars>>
    /\ UNCHANGED command_vars
    /\ UNCHANGED <<interrupt_display, left, batch_left, wake, last_sleep, signals, early>>

\* _heartbeat_loop tests its condition and enters _send_enhanced_heartbeat,
\* or ends.
HeartbeatBegin ==
    /\ pc["heartbeat"] = "run"
    /\ pc' = [pc EXCEPT !["heartbeat"] = IF LoopGoesOn THEN "sending" ELSE "stopped"]
    /\ UNCHANGED <<running, shutdown_event, last_op, sent>>
    /\ SendFrame

\* _send_enhanced_heartbeat of the heartbeat worker comes to its end; the
\* worker goes to its sleep.
HeartbeatSend ==
    /\ pc["heartbeat"] = "sending"
    /\ sent' = _send_enhanced_heartbeat(config, "heartbeat_loop", sent)
    /\ Len(sent') <= MaxSent
    /\ pc' = [pc EXCEPT !["heartbeat"] = "wait"]
    /\ last_op' = NoOp("enhanced_heartbeat")
    /\ UNCHANGED <<running, shutdown_event>>
    /\ SendFrame

\* The sleep of the heartbeat worker returns, its duration over or the
\* shutdown seen.
HeartbeatSleep ==
    /\ pc["heartbeat"] = "wait"
    /\ pc' = [pc EXCEPT !["heartbeat"] = "run"]
    /\ UNCHANGED <<running, shutdown_event, last_op, sent>>
    /\ SendFrame

\* _command_loop polls, whatever the configuration holds.
CommandLoopPoll ==
    /\ pc["command"] = "run"
    /\ LoopGoesOn
    /\ Len(sent) < MaxSent
    /\ sent' = Append(sent, Poll("command_loop"))
    /\ last_op' = NoOp("command_poll")
    /\ UNCHANGED <<running, shutdown_event, pc>>
    /\ SendFrame

\* The API test of the health-check command the command worker runs:
\* self.api.send_heartbeat().
HealthCheckHeartbeat ==
    /\ pc["command"] = "run"
    /\ sent' = send_heartbeat_with_status(config, "online", "health_check", sent)
    /\ Len(sent') <= MaxSent
    /\ last_op' = NoOp("health_check")
    /\ UNCHANGED <<running, shutdown_event, pc>>
    /\ SendFrame

\* _send_heartbeat_if_needed at the head of an iteration of _run_legacy.
SendHeartbeatIfNeeded ==
    /\ running
    /\ pc["display"] = "run"
    /\ \E due \in BOOLEAN : sent' = _send_heartbeat_if_needed(config, due, sent)
    /\ Len(sent') <= MaxSent
    /\ last_op' = NoOp("heartbeat_if_needed")
    /\ UNCHANGED <<running, shutdown_event, pc>>
    /\ SendFrame

\* shutdown() up to the joins: running is cleared and the events are set.
ShutdownBegin ==
    /\ pc["display"] = "run"
    /\ running' = FALSE
    /\ shutdown_event' = TRUE
    /\ interrupt_display' = TRUE
    /\ pc' = [pc EXCEPT !["display"] = "join"]
    /\ last_op' = NoOp("shutdown_begin")
    /\ UNCHANGED <<config, cache_info, disk, current_playlist, current_index, clock,
                   loop_state, calls, base, _content_sync_counter, invocations,
                   persisted, backup>>
    /\ UNCHANGED <<index_file, handled, content_cache_info, gateway_screen, sent,
                   player_vars>>
    /\ UNCHANGED command_vars
    /\ UNCHANGED <<left, batch_left, wake, last_sleep, signals, early>>

\* shutdown() after the joins, each of which returns when its thread has
\* ended or after 5 s: the offline heartbeat.
ShutdownEnd ==
    /\ pc["display"] = "join"
    /\ sent' = IF OfflineHeartbeat(config)
               THEN send_heartbeat_with_status(config, "offline", "shutdown", sent)
               ELSE sent
    /\ Len(sent') <= MaxSent
    /\ pc' = [pc EXCEPT !["display"] = "stopped"]
    /\ last_op' = [NoOp("shutdown") EXCEPT !.offline_sent = Len(sent') > Len(sent)]
    /\ UNCHANGED <<running, shutdown_event>>
    /\ SendFrame

\* The device is paired while the client runs.
PairWhileRunning ==
    /\ pc["display"] = "run"
    /\ HandleNotPaired

\* The requests of a client from its start to the end of shutdown(), under
\* either control loop.
NextHeartbeat ==
    \/ HeartbeatBegin
    \/ HeartbeatSend
    \/ HeartbeatSleep
    \/ CommandLoopPoll
    \/ HealthCheckHeartbeat
    \/ SendHeartbeatIfNeeded
    \/ ShutdownBegin
    \/ ShutdownEnd
    \/ PairWhileRunning

HeartbeatSpec == Init /\ [][NextHeartbeat]_vars

(***************************************************************************)
(* execute_command on the commands it rejects.                             *)
(***************************************************************************)
\* data.get('config_updates', {}) of a command that carries the key or not.
GetConfigUpdates(present, updates) == IF present THEN updates ELSE EmptyDict

\* The ids of the commands log saw routed to a handler.
Routed(log) == { log.handled[i] : i \in DOMAIN log.handled }

\* execute_command on an update_config command: the reports meet the
\* outcomes of plan, the handler the outcome of its file operations.
ExecuteUpdateConfig ==
    /\ \E present \in BOOLEAN, updates \in ConfigUpdates, outcome \in UpdateOutcomes,
          plan \in Plans :
        \E r \in {_handle_update_config(config, persisted, backup,
                                        GetConfigUpdates(present, updates), outcome)} :
        \E log \in {execute_command(Command("u1", 5, "update_config"),
                        [plan EXCEPT !.handler = IF r.raised THEN "raises" ELSE "returns"],
                        NoCycle("dispatch"))} :
            /\ persisted' = IF "u1" \in Routed(log) THEN r.persisted ELSE persisted
            /\ backup' = IF "u1" \in Routed(log) THEN r.backup ELSE backup
            /\ cycle' = log
            /\ last_op' = [NoOp("execute_update_config") EXCEPT
                              !.updates = GetConfigUpdates(present, updates),
                              !.outcome = outcome,
                              !.raised = r.raised,
                              !.config_before = config, !.file_before = persisted,
                              !.backup_before = backup]
    /\ UNCHANGED <<config, cache_info, disk, current_playlist, current_index, clock,
                   loop_state, calls, base, _content_sync_counter, invocations>>
    /\ UNCHANGED <<pending, done>>
    /\ UNCHANGED <<interrupt_vars, handler_vars>>

\* execute_command on a command whose type has no handler.
ExecuteUnknown ==
    /\ \E plan \in Plans :
            cycle' = execute_command(Command("x1", 5, "self_destruct"), plan,
                                     NoCycle("dispatch"))
    /\ last_op' = [NoOp("execute_unknown") EXCEPT
                      !.config_before = config, !.file_before = persisted,
                      !.backup_before = backup]
    /\ UNCHANGED <<config, cache_info, disk, current_playlist, current_index, clock,
                   loop_state, calls, base, _content_sync_counter, invocations,
                   persisted, backup>>
    /\ UNCHANGED <<pending, done>>
    /\ UNCHANGED <<interrupt_vars, handler_vars>>

\* The dispatcher on update_config and unknown commands, on a device that
\* may get paired meanwhile.
NextDispatch ==
    \/ ExecuteUpdateConfig
    \/ ExecuteUnknown
    \/ HandleNotPaired

DispatchSpec == Init /\ [][NextDispatch]_vars

(***************************************************************************)
(* NativeMediaPlayer (src/pi-client/media_player.py): the playlist loop    *)
(* and the calls that start and stop it.                                   *)
(***************************************************************************)
\* The threads that are inside the while loop of playback_worker.
InLoop == { t \in ThreadIds : threads[t] \in {"loop", "playing"} }

\* What a step of the player leaves alone.
PlayerFrame ==
    /\ UNCHANGED <<client_vars, command_vars, interrupt_vars>>
    /\ UNCHANGED <<index_file, handled, content_cache_info, gateway_screen, sent>>

\* start_playlist_playback: if self.is_playing: return
StartCheck(c) ==
    /\ callers[c] = "idle"
    /\ callers' = [callers EXCEPT ![c] = IF is_playing THEN "returning" ELSE "create"]
    /\ UNCHANGED <<is_playing, playback_thread, threads>>
    /\ PlayerFrame

\* start_playlist_playback: the thread of playback_worker is created,
\* stored in playback_thread and started.
StartCreate(c) ==
    /\ callers[c] = "create"
    /\ \E t \in ThreadIds :
        /\ threads[t] = "unborn"
        /\ \A u \in ThreadIds : u < t => threads[u] # "unborn"
        /\ threads' = [threads EXCEPT ![t] = "started"]
        /\ playback_thread' = t
    /\ callers' = [callers EXCEPT ![c] = "idle"]
    /\ UNCHANGED is_playing
    /\ PlayerFrame

\* stop_playlist_playback: is_playing is cleared and the process on display
\* is stopped.
StopBegin(c) ==
    /\ callers[c] = "idle"
    /\ is_playing' = FALSE
    /\ callers' = [callers EXCEPT ![c] = "joining"]
    /\ UNCHANGED <<playback_thread, threads>>
    /\ PlayerFrame

\* stop_playlist_playback: playback_thread.join(timeout=5) returns, the
\* thread having ended or the 5 s being over.
StopJoin(c) ==
    /\ callers[c] = "joining"
    /\ callers' = [callers EXCEPT ![c] = "returning"]
    /\ UNCHANGED <<is_playing, playback_thread, threads>>
    /\ PlayerFrame

\* The call returns to its caller.
CallReturns(c) ==
    /\ callers[c] = "returning"
    /\ callers' = [callers EXCEPT ![c] = "idle"]
    /\ UNCHANGED <<is_playing, playback_thread, threads>>
    /\ PlayerFrame

\* playback_worker: self.is_playing = True
WorkerEnter(t) ==
    /\ threads[t] = "started"
    /\ is_playing' = TRUE
    /\ threads' = [threads EXCEPT ![t] = "loop"]
    /\ UNCHANGED <<playback_thread, callers>>
    /\ PlayerFrame

\* playback_worker: while self.is_playing, then the item (or the sleep on an
\* empty queue).
WorkerLoop(t) ==
    /\ threads[t] = "loop"
    /\ threads' = [threads EXCEPT ![t] = IF is_playing THEN "playing" ELSE "ended"]
    /\ UNCHANGED <<is_playing, playback_thread, callers>>
    /\ PlayerFrame

\* playback_worker: the display wait of the item is over.
WorkerItemDone(t) ==
    /\ threads[t] = "playing"
    /\ threads' = [threads EXCEPT ![t] = "loop"]
    /\ UNCHANGED <<is_playing, playback_thread, callers>>
    /\ PlayerFrame

StartPlaylistPlayback == \E c \in Callers : StartCheck(c) \/ StartCreate(c)

StopPlaylistPlayback == \E c \in Callers : StopBegin(c) \/ StopJoin(c)

Returns == \E c \in Callers : CallReturns(c)

PlaybackWorker == \E t \in ThreadIds : WorkerEnter(t) \/ WorkerLoop(t) \/ WorkerItemDone(t)

\* The player under calls of start_playlist_playback and
\* stop_playlist_playback from its two callers.
NextPlayer ==
    \/ StartPlaylistPlayback
    \/ StopPlaylistPlayback
    \/ Returns
    \/ PlaybackWorker

PlayerSpec == InitPaired /\ [][NextPlayer]_vars

\* The command handlers that restart the service and check its health.
NextServiceHandlers ==
    \/ HandleRestart
    \/ HandleHealthCheck

ServiceHandlersSpec == InitPaired /\ [][NextServiceHandlers]_vars

(***************************************************************************)
(* Properties: the state derivation and the life cycle.                    *)
(***************************************************************************)
\* The device is paired, has a screen, and the cache holds a playlist.
ContentAvailable ==
    /\ Truthy(config.device_id)
    /\ Truthy(config.screen_id)
    /\ current_playlist # <<>>

\* C1: the state derivation returns PLAYING_CONTENT exactly when device_id
\* is set, screen_id is set and the current playlist of the cache is not
\* empty; so a paired device with a screen gets WAITING_FOR_MEDIA only when
\* the playlist is empty.
C1_PlayingIffContent ==
    last_op.op = "state" =>
        /\ (last_op.state = PLAYING_CONTENT) <=> ContentAvailable
        /\ (Truthy(config.device_id) /\ Truthy(config.screen_id)
              /\ last_op.state = WAITING_FOR_MEDIA) => current_playlist = <<>>

\* C2: the state derivation returns NOT_PAIRED if and only if device_id is
\* absent or empty, whatever screen_id, pairing_code and the cache hold.
C2_NotPairedIffNoDevice ==
    last_op.op = "state" =>
        ((last_op.state = NOT_PAIRED) <=> (config.device_id \in {None, ""}))

\* The state was derived as NOT_PAIRED for an empty device_id while a screen
\* is set and the cache holds a playlist.
C2_Witness ==
    /\ last_op.op = "state"
    /\ last_op.state = NOT_PAIRED
    /\ config.device_id = ""
    /\ Truthy(config.screen_id)
    /\ current_playlist # <<>>

\* C3: once the device is paired, has a screen and a sync has cached an
\* asset, the control loop eventually computes PLAYING_CONTENT and dispatches
\* the playing handler.
C3_EventuallyPlaying ==
    ContentAvailable ~> (loop_state = PLAYING_CONTENT)

(***************************************************************************)
(* Properties: eviction.                                                   *)
(***************************************************************************)
\* Aggregate size on disk of the entries of the index.
IndexedSize == SizeOf(CacheItems(cache_info, disk), cache_info, disk)

\* Sum of the sizes of the eviction records es.
RECURSIVE EvictedSize(_)
EvictedSize(es) ==
    IF es = {} THEN 0
    ELSE LET e == CHOOSE x \in es : TRUE
         IN  e.size + EvictedSize(es \ {e})

\* The last operation ran the eviction pass of a sync.
EvictionPassed == last_op.ran

\* C4 as the specification states it: after the eviction pass of any sync
\* the aggregate size on disk of the entries of the index is at most the
\* budget.
C4_WithinBudget ==
    EvictionPassed => IndexedSize <= max_size_bytes

\* C4: after the eviction pass of any sync, either the aggregate size on disk
\* of the entries of the index is at most the budget, or every entry still
\* in the index is one the pass tried to remove and could not.
C4_WithinBudgetOrUndeletable ==
    EvictionPassed =>
        \/ IndexedSize <= max_size_bytes
        \/ CacheItems(cache_info, disk) \subseteq last_op.rm_failed

\* A pass found the cache over budget, removed an entry and got the cache to
\* the budget exactly.
C4_Witness ==
    /\ EvictionPassed
    /\ last_op.over_budget
    /\ last_op.evicted # {}
    /\ IndexedSize = max_size_bytes

\* The pass removes nothing when the total (what is left and what was
\* removed) is at or under the budget.
NothingRemovedUnderBudget ==
    IndexedSize + EvictedSize(last_op.evicted) <= max_size_bytes
        => last_op.evicted = {}

\* The pass stops as soon as the total is at or under the budget: before each
\* removal the total (what is left, the entry, and what was removed after it)
\* was over the budget.
RemovalsNeeded ==
    \A e \in last_op.evicted :
        IndexedSize
          + EvictedSize({f \in last_op.evicted : f.downloaded_at >= e.downloaded_at})
            > max_size_bytes

\* Every removed entry is no newer than every entry of ids.
RemovedNoNewerThan(ids) ==
    \A e \in last_op.evicted : \A id \in ids :
        e.downloaded_at <= cache_info[id].downloaded_at

\* C5 as the specification states it: an eviction pass removes nothing when
\* the total is at or under the budget; otherwise it removes in ascending
\* order of download time and stops as soon as the total is at or under the
\* budget, so every removed entry is no newer than every retained entry.
C5_OldestFirst ==
    EvictionPassed =>
        /\ NothingRemovedUnderBudget
        /\ RemovalsNeeded
        /\ RemovedNoNewerThan(CacheItems(cache_info, disk))

\* C5: as above, but a removed entry is no newer than every retained entry
\* whose removal the pass did not try and fail; an entry whose file could
\* not be removed stays, however old.
C5_OldestFirstAmongDeletable ==
    EvictionPassed =>
        /\ NothingRemovedUnderBudget
        /\ RemovalsNeeded
        /\ RemovedNoNewerThan(CacheItems(cache_info, disk) \ last_op.rm_failed)

\* Three entries of the same size, two of them within the budget: the pass
\* removed the oldest only.
C5_Witness ==
    /\ EvictionPassed
    /\ last_op.rm_failed = {}
    /\ Cardinality(last_op.evicted) = 1
    /\ \A e \in last_op.evicted : e.downloaded_at = 1
    /\ Cardinality(CacheItems(cache_info, disk)) = 2
    /\ IndexedSize <= max_size_bytes

(***************************************************************************)
(* Properties: sync and the playlist.                                      *)
(***************************************************************************)
\* The last operation was a sync that went through, called right after
\* another one that went through with the same media list.
SyncedAgain == last_op.again

\* C6 as the specification states it: the second of two syncs in a row with
\* an unchanged media list downloads nothing and does not rewrite the index
\* file, whatever the list, lists whose total size triggers eviction in the
\* first call included.
C6_SecondSyncIdle ==
    SyncedAgain => (last_op.attempted = {} /\ ~last_op.index_written)

\* C6: the second of two syncs in a row with an unchanged media list
\* downloads nothing and does not rewrite the index file, provided no
\* download of the first call failed and its eviction pass found the cache
\* within the budget.
C6_SecondSyncIdleAfterCleanSync ==
    (SyncedAgain /\ last_op.prev_clean) =>
        (last_op.attempted = {} /\ ~last_op.index_written)

\* A list of two assets was synced a second time, after a first call that
\* had to download, and everything was a cache hit.
C6_Witness ==
    /\ SyncedAgain
    /\ last_op.prev_clean
    /\ Len(last_op.list) = 2
    /\ last_op.fresh = {last_op.list[1].id, last_op.list[2].id}
    /\ last_op.attempted = {}
    /\ ~last_op.index_written
    /\ Len(current_playlist) = 2

\* The URL of asset id in the media list of the last sync.
ListedUrl(id) ==
    last_op.list[CHOOSE i \in DOMAIN last_op.list : last_op.list[i].id = id].url

\* An asset whose URL is unchanged and whose file is present is not
\* downloaded.
FreshNotDownloaded == last_op.fresh \cap last_op.attempted = {}

\* The entries of ids that are still in the index carry the fingerprint of
\* the listed URL, and that fingerprint was stored for each of ids.
NewFingerprintStored(ids) ==
    \A id \in ids :
        /\ <<id, md5(ListedUrl(id))>> \in last_op.stored
        /\ id \in DOMAIN cache_info => cache_info[id].url_hash = md5(ListedUrl(id))

\* C7 as the specification states it: for an asset with an index entry, a
\* change of its URL alone makes the next sync download it again and store
\* the fingerprint of the new URL in its entry; an asset whose URL is
\* unchanged and whose file is present is not downloaded again.
C7_StaleRedownloaded ==
    last_op.ran =>
        /\ last_op.stale \subseteq last_op.attempted
        /\ NewFingerprintStored(last_op.stale)
        /\ FreshNotDownloaded

\* C7: for an asset with an index entry, a change of its URL alone makes the
\* next sync download it again and, if that download succeeds, store the
\* fingerprint of the new URL in its entry (a failed download leaves the
\* entry with the old fingerprint); an asset whose URL is unchanged and
\* whose file is present is not downloaded again.
C7_StaleRedownloadedIfReachable ==
    last_op.ran =>
        /\ last_op.stale \subseteq last_op.attempted
        /\ NewFingerprintStored(last_op.stale \ last_op.failed)
        /\ \A id \in last_op.stale \cap last_op.failed :
              id \in DOMAIN cache_info => cache_info[id].url_hash # md5(ListedUrl(id))
        /\ FreshNotDownloaded

\* A sync met one asset under a new URL and one unchanged: it downloaded the
\* first, whose entry now carries the new fingerprint, and not the second.
C7_Witness ==
    /\ last_op.ran
    /\ last_op.stale = {"A"}
    /\ last_op.fresh = {"B"}
    /\ last_op.attempted = {"A"}
    /\ last_op.failed = {}
    /\ "A" \in DOMAIN cache_info
    /\ cache_info["A"].url_hash = md5("u2")

\* The asset of media_item had an index entry and a file when the playlist
\* of the last sync was built: it has them now, or the eviction pass that
\* followed the build removed them.
ResidentAtBuild(media_item) ==
    \/ media_item.id \in CacheItems(cache_info, disk)
    \/ media_item.id \in {e.id : e \in last_op.evicted}

\* C8: the playlist a sync rebuilds is the subsequence of the media list made
\* of the assets that have an index entry and a file on disk, in the order
\* of the list, nothing added twice and no resident asset left out.
C8_PlaylistIsResidentSubsequence ==
    last_op.ran =>
        LET resident == SelectSeq(last_op.list, ResidentAtBuild)
        IN  /\ Len(current_playlist) = Len(resident)
            /\ \A i \in DOMAIN resident :
                  /\ current_playlist[i].id = resident[i].id
                  /\ current_playlist[i].type = resident[i].type
                  /\ current_playlist[i].duration = resident[i].duration

\* Of a list of two assets the first could not be downloaded: the playlist
\* is the second alone.
C8_Witness ==
    /\ last_op.ran
    /\ Len(last_op.list) = 2
    /\ last_op.failed = {last_op.list[1].id}
    /\ Len(current_playlist) = 1
    /\ current_playlist[1].id = last_op.list[2].id

(***************************************************************************)
(* Properties: the playback cursor.                                        *)
(***************************************************************************)
\* C9: on a playlist of n >= 1 items that is not rebuilt in between, the
\* k-th call of get_current_content returns item (k - 1) mod n, counted from
\* the position the cursor had when the playlist was built (0 on a new
\* cache); on an empty playlist the call returns None and leaves the cursor
\* where it is.
C9_CyclicCursor ==
    last_op.op = "current" =>
        IF current_playlist = <<>>
        THEN last_op.item = NoContent /\ current_index = last_op.cursor_before
        ELSE last_op.item =
                current_playlist[((base + calls - 1) % Len(current_playlist)) + 1]

\* The fourth call on a playlist of three items built with the cursor at 0
\* returned the first item again.
C9_Witness ==
    /\ last_op.op = "current"
    /\ Len(current_playlist) = 3
    /\ base = 0
    /\ calls = 4
    /\ last_op.item = current_playlist[1]

\* C10: whenever a sync rebuilds the playlist with another length than the
\* previous playlist had, the cursor is reset to 0, so that the next
\* get_current_content returns the first item of the new playlist.
C10_CursorResetOnRebuild ==
    (last_op.op = "current" /\ last_op.after_resize /\ current_playlist # <<>>)
        => last_op.item = current_playlist[1]

(***************************************************************************)
(* Properties: what a sync returns and what a failure leaves.              *)
(***************************************************************************)
\* The last operation was a sync whose media-list request the gateway
\* answered, with a list or with none.
SyncAnswered == last_op.op = "sync" /\ last_op.status = "ok"

\* The last operation was a sync whose media-list request failed.
SyncRequestFailed == last_op.op = "sync" /\ last_op.status = "error"

\* C11: a sync rebuilds the playlist from the gateway's current media list
\* and returns true if and only if the playlist after the call is not empty;
\* when the media list has become empty the playlist becomes empty and the
\* sync returns false.
C11_TrueIffPlaylist ==
    SyncAnswered =>
        /\ last_op.ret <=> (current_playlist # <<>>)
        /\ last_op.list = <<>> => current_playlist = <<>>

\* C12: a sync whose media-list request fails returns false and leaves the
\* playlist, the cursor and the cache index as they were.
C12_FailedRequestChangesNothing ==
    [][ (last_op'.op = "sync" /\ last_op'.status = "error") =>
            /\ ~last_op'.ret
            /\ UNCHANGED <<current_playlist, current_index, cache_info, disk>> ]_vars

\* The media-list request of a sync failed while a playlist of two items was
\* playing, its first item shown: the playlist and the cursor are there.
C12_Witness ==
    /\ SyncRequestFailed
    /\ ~last_op.ret
    /\ Len(current_playlist) = 2
    /\ current_index = 1
    /\ DOMAIN cache_info # {}

\* The ids of the media list of the last sync.
ListedIds == {last_op.list[i].id : i \in DOMAIN last_op.list}

\* The ids of the playlist, in its order.
PlaylistIds == [i \in DOMAIN current_playlist |-> current_playlist[i].id]

\* The media item is not one whose download failed in the last sync.
NotFailed(media_item) == media_item.id \notin last_op.failed

\* C13: when the download of an item fails, the sync still attempts every
\* other item of the list that is no cache hit, and the playlist holds every
\* other item, in the order of the list (the item that failed is in it only
\* if an older copy of it is resident).
C13_DownloadsIsolated ==
    last_op.ran =>
        /\ last_op.attempted = ListedIds \ last_op.fresh
        /\ LET others == SelectSeq(last_op.list, NotFailed)
               listed == SelectSeq(PlaylistIds, LAMBDA id : id \notin last_op.failed)
           IN  listed = [i \in DOMAIN others |-> others[i].id]

\* The download of the first of two items failed: the second was downloaded
\* all the same, and is the playlist.
C13_Witness ==
    /\ last_op.ran
    /\ Len(last_op.list) = 2
    /\ last_op.failed = {last_op.list[1].id}
    /\ last_op.attempted = ListedIds
    /\ <<last_op.list[2].id, md5(last_op.list[2].url)>> \in last_op.stored
    /\ PlaylistIds = <<last_op.list[2].id>>

(***************************************************************************)
(* Properties: the command dispatcher.                                     *)
(***************************************************************************)
\* The last cycle polled a batch.
BatchPolled == cycle.poll = "ok" /\ cycle.polled # <<>>

\* The reports of the last cycle about the command command_id, in order.
ReportsOf(command_id) ==
    SelectSeq(cycle.reports, LAMBDA r : r.id = command_id)

\* The statuses reported about command_id, in order.
StatusesOf(command_id) ==
    [i \in DOMAIN ReportsOf(command_id) |-> ReportsOf(command_id)[i].status]

\* An exception left execute_command during the last cycle.
ExceptionEscaped ==
    \E i \in DOMAIN cycle.results : cycle.results[i].ret = "raised"

\* C14: for any polled batch, the failure of one command (its handler
\* raises, or a report of its status fails) keeps no other command of the
\* batch from executing and reporting completed, and no exception leaves the
\* dispatcher, in the threaded command worker and in the single-threaded
\* poll.
C14_CommandIsolation ==
    BatchPolled =>
        /\ \A i \in DOMAIN cycle.commands :
               cycle.plans[i] = NoFaultPlan =>
                   StatusesOf(cycle.commands[i].id) = <<"executing", "completed">>
        /\ ~ExceptionEscaped

\* The ids of the commands the last cycle handed to a handler.
HandledIds == {cycle.handled[i] : i \in DOMAIN cycle.handled}

\* A terminal status was reported about command_id during the last cycle.
TerminalReported(command_id) ==
    \E i \in DOMAIN cycle.reports :
        /\ cycle.reports[i].id = command_id
        /\ cycle.reports[i].status \in {"completed", "failed"}

\* C15: reporting 'executing' is best-effort: when that report fails, the
\* handler of the command still runs and a terminal status is still
\* reported.
C15_ExecutingBestEffort ==
    \A i \in DOMAIN cycle.reports :
        (cycle.reports[i].status = "executing" /\ cycle.reports[i].outcome # "ok") =>
            /\ cycle.reports[i].id \in HandledIds
            /\ TerminalReported(cycle.reports[i].id)

\* C16: a command whose execution has ended on the device (completed or
\* failed) is never handed to a handler again, also when its terminal report
\* did not reach the gateway and a later poll returns it again.
C16_NoReExecution == HandledIds \cap cycle.done_before = {}

\* C17: for each executed command exactly one terminal status is reported,
\* after the executing report: completed if and only if the handler returned
\* without raising, failed otherwise; never both, also when the completed
\* report itself fails.
C17_OneTerminalStatus ==
    \A i \in DOMAIN cycle.commands :
        cycle.commands[i].id \in HandledIds =>
            StatusesOf(cycle.commands[i].id) =
                IF cycle.plans[i].handler = "returns"
                THEN <<"executing", "completed">>
                ELSE <<"executing", "failed">>

\* The ids of the commands of the last cycle in the order execute_command
\* was called for them.
ExecutionOrder == [i \in DOMAIN cycle.results |-> cycle.results[i].id]

\* The command of the polled batch with the id command_id, and its place in
\* the batch.
ArrivalOf(command_id) ==
    CHOOSE i \in DOMAIN cycle.polled : cycle.polled[i].id = command_id

PolledPriority(command_id) == Priority(cycle.polled[ArrivalOf(command_id)])

\* C18: a polled batch is executed one command after the other, in
\* ascending priority, commands of equal priority in the order the gateway
\* returned them, in the threaded command worker and in the single-threaded
\* poll.
C18_PriorityOrder ==
    BatchPolled =>
        /\ \A i, j \in DOMAIN ExecutionOrder :
               i < j =>
                   \/ PolledPriority(ExecutionOrder[i]) < PolledPriority(ExecutionOrder[j])
                   \/ /\ PolledPriority(ExecutionOrder[i]) = PolledPriority(ExecutionOrder[j])
                      /\ ArrivalOf(ExecutionOrder[i]) < ArrivalOf(ExecutionOrder[j])
        /\ \A a, b, c \in DOMAIN cycle.reports :
               (a < b /\ b < c /\ cycle.reports[a].id = cycle.reports[c].id) =>
                   cycle.reports[b].id = cycle.reports[a].id

(***************************************************************************)
(* Properties: the interrupt flag of the threaded client.                  *)
(***************************************************************************)
\* C19: whenever the command worker receives a command of priority <= 2
\* while the display worker is inside an interruptible wait, that wait
\* returns early instead of running its full duration, under every
\* interleaving of the command, heartbeat and display workers.
C19_UrgentInterruptsDisplay ==
    last_sleep.worker = "display" => ~(last_sleep.owed /\ last_sleep.full)

\* C20: an interruptible sleep that observes the interrupt signal clears it
\* and returns at once reporting that it was interrupted, and one signal
\* interrupts at most one wait: without a new signal or a shutdown the next
\* sleep of any worker runs its full duration.
C20_SignalConsumedOnce ==
    /\ (last_sleep.saw /\ ~last_sleep.shut) => last_sleep.ret = "True"
    /\ early <= signals

(***************************************************************************)
(* Properties: the handlers of the control loop.                           *)
(***************************************************************************)
\* The last operation was an invocation of a PLAYING_CONTENT handler.
PlayingInvoked == last_op.op \in {"playing", "playing_legacy"}

\* C21: the PLAYING_CONTENT handler forces a sync on exactly every 5th
\* invocation (5, 10, ...) and on no other, and its counter is within 0..4
\* between invocations.
C21_SyncEveryFifth ==
    /\ _content_sync_counter \in 0..4
    /\ PlayingInvoked => (last_op.forced <=> (invocations % 5 = 0))
    /\ last_op.forced => PlayingInvoked

C21_Witness ==
    /\ last_op.op = "playing_legacy" /\ last_op.forced /\ last_op.ran
    /\ invocations = 10 /\ _content_sync_counter = 0

\* The NOT_PAIRED handler ran as the last operation.
NotPairedHandled == last_op.shown # None

\* The 6-character alphanumeric codes of the model.
SixCharCodes == {PairingCode}

\* C22: whenever the NOT_PAIRED handler runs and the gateway supplies no
\* pairing code, the handler falls back to a locally generated 6-character
\* alphanumeric code and renders it: no run of the handler ends without a
\* pairing code on the screen.
C22_PairingCodeAlwaysShown ==
    NotPairedHandled =>
        /\ last_op.shown = "pairing_code"
        /\ last_op.code \in SixCharCodes

\* A device record that carries a pairing code carries no device id.
CodeOnlyWhileUnpaired(cfg) == Truthy(cfg.pairing_code) => ~Truthy(cfg.device_id)

\* C23: in every reachable state of the configuration in memory and of the
\* configuration file, pairing_code is set only while device_id is not: the
\* pairing handler sets device_id and clears pairing_code in one mutation
\* and saves both together, and nothing else sets pairing_code on a paired
\* device.  The configuration in memory is looked at between the runs of the
\* pairing handler, the file at every moment.
C23_CodeOnlyWhileUnpaired ==
    /\ pc["display"] # "pairing" => CodeOnlyWhileUnpaired(config)
    /\ CodeOnlyWhileUnpaired(persisted)

(***************************************************************************)
(* Properties: the command handlers.                                       *)
(***************************************************************************)
\* The restart handler could not initiate the supervised restart.
RestartNotInitiated ==
    handled.op = "restart" /\ handled.run \in {"exit_1", "timeout", "launch_error"}

\* C24: whenever the supervised restart cannot be initiated (non-zero exit,
\* timeout, or the command cannot be launched), the self-termination fallback
\* is attempted, and the command fails only when the fallback also errors.
C24_RestartFallsBack ==
    /\ RestartNotInitiated => handled.fallback
    /\ handled.op = "restart" /\ handled.raised =>
            handled.run # "exit_0" /\ handled.fallback

\* A clear-cache or a restart-content command has run.
CachePassRan == handled.op \in {"clear_cache", "restart_content"}

\* The files of the ids a sync stored and did not evict.
StoredFiles ==
    { item \in DOMAIN disk :
        /\ \E st \in handled.stored : st[1] = item[1]
        /\ \A e \in handled.evicted : e.id # item[1] }

\* C25: clear-cache and restart-content never delete cache_info.json, delete
\* every other file of the cache directory unless its own removal errors (a
\* deleted file is in the directory afterwards only if the sync downloaded
\* it again), and re-sync only after the deletion pass: the files the sync
\* stores are in the directory when the command ends.
C25_StateFilesSurvive ==
    CachePassRan =>
        /\ handled.index_before => index_file /\ IndexItem \notin handled.deleted
        /\ handled.deleted = (handled.listed \ {IndexItem}) \ handled.undeletable
        /\ \A item \in handled.deleted :
                item \in DOMAIN disk => item[1] \in handled.attempted
        /\ \A st \in handled.stored :
                (\A e \in handled.evicted : e.id # st[1]) =>
                    \E item \in DOMAIN disk : item[1] = st[1]

\* Both commands have met an index file, media files and a file that could
\* not be removed, and a sync has stored a file after the deletion pass.
C25_Witness ==
    /\ CachePassRan
    /\ handled.index_before
    /\ handled.deleted # {}
    /\ handled.undeletable # {}
    /\ StoredFiles # {}

\* C26: files_removed and the freed size of clear-cache equal the number and
\* the total size of the files it deleted.
C26_ReportsWhatItFreed ==
    handled.op = "clear_cache" =>
        /\ handled.files_removed = Cardinality(handled.deleted)
        /\ handled.size_freed_mb = handled.deleted_mb

\* The conditions of the health check that hold of the metrics and probes a
\* health check met; an unavailable metric holds of none.
Available(key) ==
    /\ handled.metrics.probed
    /\ key = "temperature" => handled.metrics.sensor
Over(key, limit) == Available(key) /\ handled.metrics[key] > limit
Bit(b) == IF b THEN 1 ELSE 0
IssueCount ==
    Bit(Over("cpu_percent", 90)) + Bit(Over("memory_percent", 90))
        + Bit(Over("disk_usage", 90)) + Bit(Over("temperature", 80))
        + Bit(~handled.internet) + Bit(~handled.api_server)

\* C27: the overall status of a health check is healthy iff no condition
\* holds, warning iff one or two hold, critical iff more hold; an unavailable
\* metric counts as no issue and does not make the command fail.
C27_HealthAggregation ==
    handled.op = "health_check" =>
        /\ ~handled.raised
        /\ handled.overall_status = "healthy" <=> IssueCount = 0
        /\ handled.overall_status = "warning" <=> IssueCount \in 1..2
        /\ handled.overall_status = "critical" <=> IssueCount > 2

(***************************************************************************)
(* Properties: the control loops.                                          *)
(***************************************************************************)
\* An iteration of a control loop has raised an exception.
IterationRaised == loop_state = "TypeError"

\* C29: in both control loops an exception raised inside an iteration (a
\* state handler, the state computation, a gateway call) does not terminate
\* the loop: no shutdown being requested, the client keeps running.
C29_LoopNeverExits == IterationRaised => running

(***************************************************************************)
(* Properties: shutdown.                                                   *)
(***************************************************************************)
\* The sleep of the worker w takes a nap of 100 ms.
Napped(w) == pc[w] = "wait" /\ pc'[w] = "wait" /\ left'[w] = left[w] - 1

\* The command worker and the heartbeat worker have left their loops.
WorkersStopped == pc["command"] = "stopped" /\ pc["heartbeat"] = "stopped"

\* C30: once shutdown() is invoked the shutdown signal stays set, no sleep
\* naps again (a sleep under way or started later returns at its next check,
\* with the time it had left), the command worker and the heartbeat worker
\* eventually leave their loops, and the offline heartbeat is sent iff
\* device_id is set.
C30_GracefulShutdown ==
    /\ [][shutdown_event => shutdown_event']_vars
    /\ [][shutdown_event => \A w \in Workers : ~Napped(w)]_vars
    /\ [](last_op.op = "shutdown" =>
            /\ shutdown_event
            /\ last_op.offline_sent <=> Truthy(config.device_id))
    /\ shutdown_event ~> WorkersStopped

\* shutdown() has been invoked on an unpaired device while the command worker
\* was asleep with time left, and both workers have left their loops.
C30_Witness ==
    /\ last_op.op = "shutdown" /\ ~last_op.offline_sent
    /\ last_sleep.shut /\ ~last_sleep.full /\ last_sleep.worker = "command"
    /\ WorkersStopped

(***************************************************************************)
(* Properties: the update-config command.                                  *)
(***************************************************************************)
\* The last operation was an update-config command, and it succeeded.
ConfigUpdated == last_op.op = "update_config" /\ ~last_op.raised

\* C28: update-config leaves the configuration in memory as it was, writes
\* to the file the configuration in memory overridden by the updates, after
\* copying the previous file to the backup, and flags restart_required.
C28_UpdateNotLive ==
    /\ last_op.op = "update_config" => config = last_op.config_before
    /\ ConfigUpdated =>
        /\ \A k \in DOMAIN config :
                persisted[k] = IF k \in DOMAIN last_op.updates THEN last_op.updates[k]
                               ELSE last_op.config_before[k]
        /\ last_op.file_before # NoFile => backup = last_op.file_before
        /\ last_op.restart_required

\* An update of screen_id has succeeded on a device whose file differed from
\* the configuration in memory.
C28_Witness ==
    /\ ConfigUpdated
    /\ "screen_id" \in DOMAIN last_op.updates
    /\ last_op.file_before # last_op.config_before
    /\ last_op.file_before.device_id # last_op.config_before.device_id
    /\ backup = last_op.file_before
    /\ config.screen_id # persisted.screen_id

(***************************************************************************)
(* Properties: the cache index and the files.                              *)
(***************************************************************************)
\* The entries of the index whose file is not on disk.
MissingFiles == { id \in DOMAIN cache_info : ~Exists(disk, cache_info[id].local_path) }

\* C31: after any sequence of sync, eviction, clear-cache and restart-content
\* operations every entry of the cache index has its file on disk.
C31_EntriesHaveFiles == MissingFiles = {}

\* The entries of the index whose file is on disk.
LiveEntries == DOMAIN cache_info \ MissingFiles

\* C32: the file count of get_cache_stats is the number of index entries
\* whose file is on disk, its total size the summed size of those files, and
\* the call changes neither the index nor the playlist nor the cursor.
C32_StatsExcludeStale ==
    handled.op = "cache_stats" =>
        /\ handled.total_files = Cardinality(LiveEntries)
        /\ handled.total_size_mb = SizeOf(LiveEntries, cache_info, disk)
        /\ handled.before = <<cache_info, current_playlist, current_index>>

(***************************************************************************)
(* Properties: eviction and the playlist.                                  *)
(***************************************************************************)
\* The ids the eviction pass of the last sync removed.
EvictedIds == { e.id : e \in last_op.evicted }

\* C33: eviction does not protect playlist items: an asset of the media list
\* that the eviction pass of a sync removes, file and index entry, is in the
\* playlist the sync leaves.
C33_EvictedStaysInPlaylist ==
    last_op.op = "sync" /\ LastRan =>
        \A id \in EvictedIds \cap ListedIds :
            /\ id \notin DOMAIN cache_info
            /\ \E i \in DOMAIN current_playlist :
                    /\ current_playlist[i].id = id
                    /\ ~Exists(disk, current_playlist[i].path)

\* A sync has returned, and the item the cursor returns next is one whose
\* file and index entry the eviction pass of that sync removed.
C33_Witness ==
    /\ last_op.op = "sync" /\ LastRan
    /\ current_playlist # <<>>
    /\ \E item \in {current_playlist[NextPosition(current_playlist, current_index) + 1]} :
            /\ item.id \in EvictedIds
            /\ item.id \notin DOMAIN cache_info
            /\ ~Exists(disk, item.path)

(***************************************************************************)
(* Properties: one cache directory, several ContentManager objects.        *)
(***************************************************************************)
\* The ids the eviction pass of the step's sync removed.
StepEvicted ==
    { e.id : e \in IF handled' # handled THEN handled'.evicted ELSE last_op'.evicted }

\* C34: the index is shared safely between the client's ContentManager and
\* the ones of the command handlers: no step drops from cache_info.json an
\* entry that was persisted, unless its eviction pass removed it.
C34_NoEntryDropped ==
    [][\A id \in DOMAIN cache_info :
            id \in DOMAIN cache_info' \/ id \in StepEvicted]_vars

\* C35: a sync forced by a command reaches playback: when a sync-content or
\* clear-cache command whose sync went through has reported, the playlist
\* the playback worker reads is the one that sync built.
C35_CommandSyncReachesPlayback ==
    [][handled' # handled /\ handled'.op \in {"sync_content", "clear_cache"}
            /\ handled'.ran
        => current_playlist' = handled'.playlist]_vars

(***************************************************************************)
(* Properties: a screen assigned after the pairing.                        *)
(***************************************************************************)
\* C36: a device paired without a screen, to which an operator has assigned
\* a screen at the gateway, eventually holds that screen_id in its
\* configuration (and with it leaves the no-screen branch of
\* handle_waiting_for_media for the sync).
C36_ScreenPickedUp ==
    (Truthy(config.device_id) /\ ~Truthy(config.screen_id) /\ gateway_screen # None)
        ~> (config.screen_id = gateway_screen)

(***************************************************************************)
(* Properties: the heartbeats the gateway receives.                        *)
(***************************************************************************)
\* The requests the step sends.
SentByStep == { sent'[i] : i \in (Len(sent) + 1)..Len(sent') }

\* C37: while device_id is unset no heartbeat is sent, whatever its status
\* and its caller, and the single-threaded loop polls no command.
C37_SilentWhileUnpaired ==
    [][~Truthy(config.device_id) =>
            \A request \in SentByStep :
                request.kind = "poll" /\ request.by = "command_loop"]_vars

\* On a device without device_id the heartbeat worker has been through
\* _send_enhanced_heartbeat, the single-threaded loop through
\* _send_heartbeat_if_needed or shutdown() through its end, and the gateway
\* has received no heartbeat.
C37_Witness ==
    /\ ~Truthy(config.device_id)
    /\ last_op.op \in {"enhanced_heartbeat", "heartbeat_if_needed", "shutdown"}
    /\ \A i \in DOMAIN sent : sent[i].kind = "poll"

Rejected ==
    \/ last_op.op = "execute_unknown"
    \/ last_op.op = "execute_update_config" /\ DOMAIN last_op.updates = {}

\* C39: a rejected command is reported failed, and the configuration file,
\* its backup and the configuration in memory are as they were.
C39_RejectedChangesNothing ==
    Rejected =>
        /\ \E i \in DOMAIN cycle.reports : cycle.reports[i].status = "failed"
        /\ persisted = last_op.file_before
        /\ backup = last_op.backup_before
        /\ config = last_op.config_before

(***************************************************************************)
(* Properties: the playback worker of NativeMediaPlayer.                   *)
(***************************************************************************)
\* C40: at most one playback worker runs the playlist loop at any time.
C40_OnePlaybackWorker == Cardinality(InLoop) <= 1
====
